---------------------------- MODULE Spec2Model ----------------------------
(***************************************************************************)
(* A model of the Leo compiler middle-end: the type checker's expression   *)
(* visitor (compiler/passes/src/type_checker), the expression parser       *)
(* (compiler/parser/src/parser/expression.rs), the flattening pass         *)
(* (compiler/passes/src/flattening) and the import resolver                *)
(* (ast-passes/src/import_resolution/resolver.rs).                         *)
(*                                                                         *)
(* Text is modelled as a sequence of one-character strings, so that        *)
(* formatting ("-" prepended to a literal) and parsing (str::parse) are    *)
(* computed and not assumed.  Integers wider than TLC's own are kept as    *)
(* decimal digit sequences.  Source spans are left out of the AST; tokens  *)
(* keep theirs because the parser reads them.                              *)
(***************************************************************************)
EXTENDS Integers, Sequences, FiniteSets, TLC

VARIABLES
    \* ---- type checker (TypeChecker, checker.rs:27-35) ----
    negate,        \* TypeChecker.negate
    handler,       \* the diagnostics emitted to TypeChecker.handler, in order
    checker_panic, \* the message of the todo!() the checker's thread died of, or "none"
    visits,        \* number of top-level visit_expression calls on this checker
    lastExpr,      \* the expression of the last top-level visit
    lastExpected,  \* its expected-type hint
    lastOut,       \* the TypeOutput it returned
    lastErrs,      \* the diagnostics it emitted
    \* ---- parser (ParserContext, expression.rs) ----
    source,        \* the tokens handed to the parser
    parsed,        \* what parse_expression returned for them
    \* ---- import resolver (CoreImportResolver, resolver.rs) ----
    inner_resolver,    \* CoreImportResolver.inner
    last_segments,     \* the segments of the last resolve_package call
    resolved,          \* whether resolve_package was called on this resolver
    resolution,        \* what the last resolve_package call returned
    inner_called,      \* the call it made on self.inner, if any
    \* ---- flattening pass (Flattener, flatten_program.rs) ----
    flattener,         \* the Flattener: condition stack, returns, finalizes, maps, Definer
    last_function,     \* the function last handed to reconstruct_function
    flattened,         \* the function reconstruct_function returned for it
    functions_done,    \* functions flattened by this Flattener
    body_entry,        \* the Flattener as it was when the last function's body was entered
    body_returns,      \* self.returns as clear_early_returns took it after that body
    \* ---- record declarations (Circuit, circuit.rs) ----
    comparison,        \* the last two Circuit values compared with ==, and the answer
    \* ---- fresh names (Definer, common/definer/mod.rs) ----
    definer            \* DefinerInner.counter and the calls of unique_symbol made, in order

flVars == <<flattener, last_function, flattened, functions_done, body_entry, body_returns>>
tcVars == <<negate, handler, checker_panic, visits, lastExpr, lastExpected, lastOut, lastErrs>>
psVars == <<source, parsed>>
rsVars == <<inner_resolver, last_segments, resolved, resolution, inner_called>>
eqVars == <<comparison>>
dfVars == <<definer>>
vars == <<negate, handler, checker_panic, visits, lastExpr, lastExpected, lastOut, lastErrs, source, parsed,
          inner_resolver, last_segments, resolved, resolution, inner_called,
          flattener, last_function, flattened, functions_done, body_entry, body_returns,
          comparison, definer>>

(***************************************************************************)
(* Bounds of the model.                                                    *)
(***************************************************************************)
MaxNeg == 2      \* unary negations stacked on a literal
MaxVisits == 1   \* top-level visits per TypeChecker before a new one is made

\* `let v = value;` followed by the code that uses v: the value is computed once
Let(value, In(_)) == CHOOSE out \in {In(v) : v \in {value}} : TRUE

(***************************************************************************)
(* Decimal text.                                                           *)
(***************************************************************************)
Digits == <<"0", "1", "2", "3", "4", "5", "6", "7", "8", "9">>

IsDigit(c) == \E i \in 1..10 : Digits[i] = c

DigitVal(c) == (CHOOSE i \in 1..10 : Digits[i] = c) - 1

\* The decimal numeral without its leading zeros ("007" is 7, "000" is 0).
StripZeros(s) ==
    LET nonzero == {i \in 1..Len(s) : s[i] # "0"}
        first == IF nonzero = {} THEN Len(s) ELSE CHOOSE i \in nonzero : \A j \in nonzero : i <= j
    IN IF s = <<>> THEN s ELSE SubSeq(s, first, Len(s))

\* a <= b, digit by digit from the left, for two numerals of one length
LexLeq(a, b) ==
    \/ a = b
    \/ \E i \in 1..Len(a) :
          /\ DigitVal(a[i]) < DigitVal(b[i])
          /\ \A j \in 1..(i - 1) : a[j] = b[j]

\* a <= b for two numerals without leading zeros.
DecLeq(a, b) ==
    \/ Len(a) < Len(b)
    \/ Len(a) = Len(b) /\ LexLeq(a, b)

(***************************************************************************)
(* Types (leo_ast::Type, IntegerType) and the checker's type classes.      *)
(***************************************************************************)
NoType == "none"

SIGNED_INT_TYPES == <<"i8", "i16", "i32", "i64", "i128">>

UNSIGNED_INT_TYPES == <<"u8", "u16", "u32", "u64", "u128">>

INT_TYPES == SIGNED_INT_TYPES \o UNSIGNED_INT_TYPES

Range(seq) == {seq[i] : i \in 1..Len(seq)}

IsSignedInt(ty) == ty \in Range(SIGNED_INT_TYPES)

\* The largest value of each integer type, as Rust's primitive types have it.
IntMax(ty) ==
    CASE ty = "i8" -> <<"1","2","7">>
      [] ty = "i16" -> <<"3","2","7","6","7">>
      [] ty = "i32" -> <<"2","1","4","7","4","8","3","6","4","7">>
      [] ty = "i64" -> <<"9","2","2","3","3","7","2","0","3","6","8","5","4","7","7","5","8","0","7">>
      [] ty = "i128" -> <<"1","7","0","1","4","1","1","8","3","4","6","0","4","6","9","2","3","1","7",
                          "3","1","6","8","7","3","0","3","7","1","5","8","8","4","1","0","5","7","2","7">>
      [] ty = "u8" -> <<"2","5","5">>
      [] ty = "u16" -> <<"6","5","5","3","5">>
      [] ty = "u32" -> <<"4","2","9","4","9","6","7","2","9","5">>
      [] ty = "u64" -> <<"1","8","4","4","6","7","4","4","0","7","3","7","0","9","5","5","1","6","1","5">>
      [] ty = "u128" -> <<"3","4","0","2","8","2","3","6","6","9","2","0","9","3","8","4","6","3","4",
                          "6","3","3","7","4","6","0","7","4","3","1","7","6","8","2","1","1","4","5","5">>

\* The magnitude of the smallest value of each integer type.
IntAbsMin(ty) ==
    CASE ty = "i8" -> <<"1","2","8">>
      [] ty = "i16" -> <<"3","2","7","6","8">>
      [] ty = "i32" -> <<"2","1","4","7","4","8","3","6","4","8">>
      [] ty = "i64" -> <<"9","2","2","3","3","7","2","0","3","6","8","5","4","7","7","5","8","0","8">>
      [] ty = "i128" -> <<"1","7","0","1","4","1","1","8","3","4","6","0","4","6","9","2","3","1","7",
                          "3","1","6","8","7","3","0","3","7","1","5","8","8","4","1","0","5","7","2","8">>
      [] OTHER -> <<"0">>

(***************************************************************************)
(* str::parse::<T>() for an integer type T, as the checker calls it        *)
(* (check_expressions.rs:86, 101, 116, 131, 146, 154, 162, 173, 184, 195). *)
(* A leading "+" is accepted; a leading "-" is a sign only for a signed    *)
(* type (for an unsigned one it is an invalid digit); every other          *)
(* character must be a digit; the value must be in T's range.              *)
(***************************************************************************)
ParseErr == [ok |-> FALSE, neg |-> FALSE, mag |-> <<>>]

ParseIntWrapping(s, ty) ==
    \* the range check left out: every well-formed numeral parses
    IF s = <<>> THEN ParseErr
    ELSE LET signed == Head(s) = "-" /\ IsSignedInt(ty)
             body == IF Head(s) = "+" \/ signed THEN Tail(s) ELSE s
         IN IF body = <<>> \/ \E i \in 1..Len(body) : ~IsDigit(body[i]) THEN ParseErr
            ELSE [ok |-> TRUE, neg |-> signed /\ StripZeros(body) # <<"0">>,
                  mag |-> StripZeros(body)]

ParseInt(s, ty) ==
    IF s = <<>> THEN ParseErr
    ELSE IF Head(s) \in {"+", "-"} /\ Tail(s) = <<>> THEN ParseErr
    ELSE LET signed == Head(s) = "-" /\ IsSignedInt(ty)
             body == IF Head(s) = "+" \/ signed THEN Tail(s) ELSE s
             mag == StripZeros(body)
         IN IF \E i \in 1..Len(body) : ~IsDigit(body[i]) THEN ParseErr
            ELSE IF signed /\ ~DecLeq(mag, IntAbsMin(ty)) THEN ParseErr
            ELSE IF ~signed /\ ~DecLeq(mag, IntMax(ty)) THEN ParseErr
            ELSE [ok |-> TRUE, neg |-> signed /\ mag # <<"0">>, mag |-> mag]

(***************************************************************************)
(* Values, type outputs and diagnostics.                                   *)
(***************************************************************************)
NoValue == [ty |-> NoType, neg |-> FALSE, mag |-> <<>>]

\* Value::I8(int, span) ... Value::U128(int, span)
IntValue(ty, p) == [ty |-> ty, neg |-> p.neg, mag |-> p.mag]

\* TypeOutput::None
NoOutput == [ty |-> NoType, val |-> NoValue]

\* Value::T(..).into(): a TypeOutput that carries the value and its type
ValueOutput(v) == [ty |-> v.ty, val |-> v]

\* TypeCheckerError::invalid_int_value(value, type, span)
invalid_int_value(text, ty) == [kind |-> "invalid_int_value", args |-> <<text, <<ty>>>>]

\* TypeCheckerError::type_is_not_negatable(type, span)
type_is_not_negatable(ty) == [kind |-> "type_is_not_negatable", args |-> << <<ty>> >>]

\* TypeCheckerError::type_should_be(type, expected, span)
type_should_be(ty, expected) == [kind |-> "type_should_be", args |-> << <<ty>>, <<expected>> >>]

\* TypeCheckerError::unknown_sym(kind, name, span)
unknown_sym(kind, name) == [kind |-> "unknown_sym", args |-> <<kind, name>>]

\* TypeCheckerError::incorrect_num_args_to_call(expected, received, span)
incorrect_num_args_to_call(expected, received) ==
    [kind |-> "incorrect_num_args_to_call", args |-> <<expected, received>>]

\* TypeCheckerError::incorrect_num_circuit_members(expected, received, span)
incorrect_num_circuit_members(expected, received) ==
    [kind |-> "incorrect_num_circuit_members", args |-> <<expected, received>>]

\* Handler::emit_err on the checker state st = [negate, errs, panic]; nothing
\* runs once the thread has panicked
emit_err(st, err) ==
    IF st.panic # "none" THEN st ELSE [st EXCEPT !.errs = Append(@, err)]

\* todo!(message): the thread panics with the message
todo(st, message) == [st EXCEPT !.panic = IF @ = "none" THEN message ELSE @]

\* The checker's mutable state threaded through a visit: [negate, errs, panic].
CheckerState(n, errs) == [negate |-> n, errs |-> errs, panic |-> "none"]

\* A visit's result: the TypeOutput returned and the checker state after it.
Visited(out, st) == [out |-> out, st |-> st]

(***************************************************************************)
(* checker.rs: the assertions of TypeChecker.                              *)
(***************************************************************************)
\* Type::eq_flat on the primitive and named types modelled here
eq_flat(a, b) == a = b

\* assert_expected_option: emits type_should_be when an expected type is given
\* and differs from `actual`, and returns `actual`.  The call sites in
\* check_expressions.rs also pass the TypeOutput to return: a value keeps its
\* value, TypeOutput::None carries the bare type `actual`.
assert_expected_option(actual, output, expected, st) ==
    Visited(IF output = NoOutput THEN [ty |-> actual, val |-> NoValue] ELSE output,
            IF expected # NoType /\ ~eq_flat(actual, expected)
            THEN emit_err(st, type_should_be(actual, expected))
            ELSE st)

\* assert_expected_type: emits type_should_be when `actual` is known and differs
\* from the `expected` type.
assert_expected_type(actual, expected, st) ==
    IF actual # NoType /\ ~eq_flat(actual, expected)
    THEN emit_err(st, type_should_be(actual, expected))
    ELSE st

\* TypeCheckerError::expected_one_type_of(list, type, span)
expected_one_type_of(types, ty) == [kind |-> "expected_one_type_of", args |-> <<types, <<ty>>>>]

\* assert_one_of_types
assert_one_of_types(ty, expected, st) ==
    IF ty # NoType /\ ty \notin Range(expected)
    THEN emit_err(st, expected_one_type_of(expected, ty))
    ELSE st

BOOL_INT_TYPES == INT_TYPES \o <<"boolean">>

FIELD_GROUP_TYPES == <<"field", "group">>

FIELD_SCALAR_TYPES == <<"field", "scalar">>

MAGNITUDE_TYPES == <<"u8", "u16", "u32">>

FIELD_INT_TYPES == INT_TYPES \o <<"field">>

FIELD_GROUP_INT_TYPES == FIELD_INT_TYPES \o <<"group">>

FIELD_GROUP_SCALAR_INT_TYPES == FIELD_GROUP_INT_TYPES \o <<"scalar">>

\* the types of assert_address_field_scalar_int_type
ADDRESS_FIELD_SCALAR_INT_TYPES == INT_TYPES \o <<"field", "scalar", "address">>

\* the primitive types; every other type is Type::Identifier(ident), written
\* as the name of the record
PRIMITIVE_TYPES == Range(INT_TYPES) \cup {"address", "boolean", "field", "group", "scalar", "string"}

IsIdentifierType(ty) == ty # NoType /\ ty \notin PRIMITIVE_TYPES

\* assert_eq_types
assert_eq_types(t1, t2, st) ==
    IF t1 # NoType /\ t2 # NoType
    THEN IF t1 # t2 THEN emit_err(st, type_should_be(t1, t2)) ELSE st
    ELSE IF t1 # NoType THEN emit_err(st, type_should_be("no type", t1))
    ELSE IF t2 # NoType THEN emit_err(st, type_should_be("no type", t2))
    ELSE st

\* assert_expected_circuit
assert_expected_circuit(circuit, expected, st) ==
    IF IsIdentifierType(expected) /\ circuit # expected
    THEN emit_err(st, type_should_be(circuit, expected))
    ELSE st

(***************************************************************************)
(* TypeOutput (type_output.rs): a type with, for a constant, its value.    *)
(* The Const/Lit/Mut marker of the variants is left out.                   *)
(***************************************************************************)
\* TypeOutput::MutType(ty), TypeOutput::LitType(ty)
TypeOnly(ty) == [ty |-> ty, val |-> NoValue]

\* Value::Circuit(identifier, members): members is the list of
\* [name, value] in insertion order
CircuitValue(identifier, members) ==
    [ty |-> identifier, neg |-> FALSE, mag |-> <<>>, members |-> members]

IsCircuitValue(v) == "members" \in DOMAIN v

\* TypeOutput::replace(type): the same variant over another type
replace(output, ty) == TypeOnly(ty)

\* TypeOutput::replace_value(value)
replace_value(output, value) == ValueOutput(value)

\* TypeOutput::return_incorrect_type: the common type of two outputs of the
\* same type; of two different types the one that is not the expected one;
\* nothing when either has no type.  It has no handler and emits nothing.
return_incorrect_type(t1, t2, expected) ==
    IF t1.ty = NoType \/ t2.ty = NoType THEN NoOutput
    ELSE IF t1.ty = t2.ty THEN TypeOnly(t1.ty)
    ELSE IF expected # NoType /\ t1.ty = expected THEN TypeOnly(t2.ty)
    ELSE TypeOnly(t1.ty)

\* assert_expected_type as check_expressions.rs calls it, with the output to
\* return: the expected type is what is returned
assert_expected_type_of(actual, output, expected, st) ==
    Visited(replace(output, expected), assert_expected_type(actual, expected, st))

(***************************************************************************)
(* The symbol table of the checked program (SymbolTable):                  *)
(*   let n: u8; let y: boolean; let flag: boolean; let g: group;           *)
(*   let s: scalar;                                                        *)
(*   let foo: Foo; let ghost: Ghost;      (no record is named Ghost)       *)
(*   function f(a: u8, b: boolean) -> u8; function nullary() -> field;     *)
(*   circuit Foo { x: u8, y: boolean }                                     *)
(***************************************************************************)
NoSymbol == [k |-> "None"]

VariableSymbol(type_) == [k |-> "Variable", type_ |-> type_]

FunctionSymbol(input, type_) == [k |-> "Function", input |-> input, type_ |-> type_]

CircuitSymbol(identifier, members) ==
    [k |-> "Circuit", identifier |-> identifier, members |-> members]

Typed(name, type_) == [name |-> name, type_ |-> type_]

symbol_table ==
    [variables |-> [n \in {"n", "m", "y", "flag", "g", "s", "foo", "ghost"} |->
                       CASE n = "n" -> VariableSymbol("u8")
                         [] n = "m" -> VariableSymbol("i8")
                         [] n \in {"y", "flag"} -> VariableSymbol("boolean")
                         [] n = "g" -> VariableSymbol("group")
                         [] n = "s" -> VariableSymbol("scalar")
                         [] n = "foo" -> VariableSymbol("Foo")
                         [] n = "ghost" -> VariableSymbol("Ghost")],
     functions |-> [n \in {"f", "h", "nullary"} |->
                       CASE n = "f" -> FunctionSymbol(<<Typed("a", "u8"), Typed("b", "boolean")>>, "u8")
                         [] n = "h" -> FunctionSymbol(<<Typed("a", "i8")>>, "i8")
                         [] n = "nullary" -> FunctionSymbol(<<>>, "field")],
     circuits |-> [n \in {"Foo"} |->
                      CircuitSymbol("Foo", <<Typed("x", "u8"), Typed("y", "boolean")>>)]]

\* SymbolTable::lookup_variable, lookup_fn, lookup_circuit
lookup_variable(name) ==
    IF name \in DOMAIN symbol_table.variables THEN symbol_table.variables[name] ELSE NoSymbol

lookup_fn(name) ==
    IF name \in DOMAIN symbol_table.functions THEN symbol_table.functions[name] ELSE NoSymbol

lookup_circuit(name) ==
    IF name \in DOMAIN symbol_table.circuits THEN symbol_table.circuits[name] ELSE NoSymbol

\* a variable as a TypeOutput
VariableOutput(var) == TypeOnly(var.type_)

(***************************************************************************)
(* check_expressions.rs: the expression visitor.                           *)
(*   Literal: [k |-> "Literal", variant, ty, s]   (s: the textual payload) *)
(*   Unary:   [k |-> "Unary", op, receiver]                                *)
(***************************************************************************)
Literal(variant, ty, s) == [k |-> "Literal", variant |-> variant, ty |-> ty, s |-> s]

Unary(op, receiver) == [k |-> "Unary", op |-> op, receiver |-> receiver]

\* the text handed to parse for a signed literal without the negate flag read
signed_literal_text_unsigned(neg, str_content) == str_content

\* `if self.negate { format!("-{str_content}") } else { str_content.clone() }`
signed_literal_text(neg, str_content) ==
    IF neg THEN <<"-">> \o str_content ELSE str_content

\* the Integer arm of visit_literal
visit_integer_literal(type_, str_content, expected, st) ==
    LET ret == assert_expected_option(type_, NoOutput, expected, st)
        int == IF IsSignedInt(type_)
               THEN signed_literal_text(st.negate, str_content)
               ELSE str_content
        parse == ParseInt(int, type_)
    IN IF parse.ok
       THEN Visited(ValueOutput(IntValue(type_, parse)), ret.st)
       ELSE Visited(ret.out, emit_err(ret.st, invalid_int_value(int, type_)))

\* the type of the non-integer literal variants
LiteralType(variant) ==
    CASE variant = "Address" -> "address"
      [] variant = "Boolean" -> "boolean"
      [] variant = "Field" -> "field"
      [] variant = "Group" -> "group"
      [] variant = "Scalar" -> "scalar"
      [] variant = "String" -> "string"

visit_literal(input, expected, st) ==
    IF input.variant = "Integer"
    THEN visit_integer_literal(input.ty, input.s, expected, st)
    ELSE LET ty == LiteralType(input.variant)
         IN assert_expected_option(
                ty, ValueOutput([ty |-> ty, neg |-> FALSE, mag |-> input.s]), expected, st)

\* the flag left as it is on entering a negate
negate_not_toggled(n) == n

\* `self.negate = !self.negate;`
negate_toggled(n) == ~n

\* the flag left toggled on leaving a negate
negate_not_restored(prior, inner) == inner

\* `self.negate = prior_negate_state;`
negate_restored(prior, inner) == prior

\* every integer type taken for negatable
any_int_negatable(ty) == ty \in Range(INT_TYPES) \/ ty \in {"field", "group"}

\* the operand types a negate accepts
IsNegatable(ty) == IsSignedInt(ty) \/ ty \in {"field", "group"}

RECURSIVE visit_expression(_, _, _)

visit_identifier(input, expected, st) ==
    IF lookup_circuit(input.name) # NoSymbol
    THEN assert_expected_option(lookup_circuit(input.name).identifier,
                                TypeOnly(lookup_circuit(input.name).identifier), expected, st)
    ELSE IF lookup_variable(input.name) # NoSymbol
    THEN assert_expected_option(lookup_variable(input.name).type_,
                                VariableOutput(lookup_variable(input.name)), expected, st)
    ELSE Visited(NoOutput, emit_err(st, unknown_sym("variable", input.name)))

\* the member of a list of [name, ..] with the name, as IndexMap::get finds it
has_member(members, name) == \E i \in 1..Len(members) : members[i].name = name

get_member(members, name) == members[CHOOSE i \in 1..Len(members) : members[i].name = name]

\* the Member arm of visit_access
visit_member_access(access, expected, st) ==
    Let(visit_expression(access.inner, NoType, st), LAMBDA const_circuit :
        IF const_circuit.st.panic # "none" THEN const_circuit
        ELSE IF IsCircuitValue(const_circuit.out.val)
        THEN IF has_member(const_circuit.out.val.members, access.name)
             THEN Visited(replace_value(const_circuit.out,
                                        get_member(const_circuit.out.val.members, access.name).value),
                          const_circuit.st)
             ELSE Visited(NoOutput, todo(const_circuit.st, "throw an error for member not existing"))
        ELSE IF const_circuit.out.ty # NoType
        THEN IF IsIdentifierType(const_circuit.out.ty)
             THEN IF lookup_circuit(const_circuit.out.ty) # NoSymbol
                  THEN IF has_member(lookup_circuit(const_circuit.out.ty).members, access.name)
                       THEN Visited(replace(const_circuit.out,
                                            get_member(lookup_circuit(const_circuit.out.ty).members,
                                                       access.name).type_),
                                    const_circuit.st)
                       ELSE Visited(NoOutput,
                                    todo(const_circuit.st, "throw an error for member not existing"))
                  ELSE Visited(NoOutput, todo(const_circuit.st, "circuit type does not exist"))
             ELSE Visited(NoOutput, todo(const_circuit.st, "throw error non circuit type"))
        ELSE Visited(NoOutput,
                     todo(const_circuit.st, "throw error here trying to access on a non circuit type")))

\* visit_access: the arm of every other access returns TypeOutput::None
visit_access(input, expected, st) ==
    IF input.k = "MemberAccess" THEN visit_member_access(input, expected, st)
    ELSE Visited(NoOutput, st)

\* `let t1 = self.visit_expression(&input.left, hint); let t2 =
\* self.visit_expression(&input.right, hint);`
visit_operands(input, hint, st) ==
    Let(visit_expression(input.left, hint, st), LAMBDA t1 :
    Let(visit_expression(input.right, hint, t1.st), LAMBDA t2 :
        [t1 |-> t1.out, t2 |-> t2.out, st |-> t2.st]))

\* the arms of visit_binary that visit both operands with the expected type
visit_same_class(input, expected, st) ==
    Let(visit_operands(input, expected, st), LAMBDA v :
        Visited(return_incorrect_type(v.t1, v.t2, expected), v.st))

visit_logical(input, expected, st) ==
    Let(visit_operands(input, expected,
                       assert_expected_option("boolean", NoOutput, expected, st).st), LAMBDA v :
        Visited(return_incorrect_type(v.t1, v.t2, expected), v.st))

\* a group operand multiplied by anything
mul_other_any(other, st) == st

\* `self.assert_expected_type(&other, TypeOutput::None, Type::Scalar, ..)`
mul_other_scalar(other, st) == assert_expected_type(other, "scalar", st)

visit_mul(input, expected, st) ==
    Let(visit_operands(input, NoType, assert_one_of_types(expected, FIELD_GROUP_INT_TYPES, st)),
        LAMBDA v :
        IF v.t1.ty = "group"
        THEN assert_expected_type_of(expected, return_incorrect_type(v.t1, v.t2, expected), "group",
                                     mul_other_scalar(v.t2.ty, v.st))
        ELSE IF v.t2.ty = "group"
        THEN assert_expected_type_of(expected, return_incorrect_type(v.t1, v.t2, expected), "group",
                                     mul_other_scalar(v.t1.ty, v.st))
        ELSE Visited(return_incorrect_type(v.t1, v.t2, expected),
                     assert_one_of_types(expected, FIELD_INT_TYPES, v.st)))

\* assert_magnitude_type
assert_magnitude_type(ty, st) == assert_one_of_types(ty, MAGNITUDE_TYPES, st)

visit_pow(input, expected, st) ==
    Let(visit_operands(input, NoType, st), LAMBDA v :
        IF v.t1.ty = "field"
        THEN assert_expected_type_of(expected, return_incorrect_type(v.t1, v.t2, expected), "field",
                                     assert_expected_type(v.t2.ty, "field", v.st))
        ELSE IF v.t2.ty = "field"
        THEN assert_expected_type_of(expected, return_incorrect_type(v.t1, v.t2, expected), "field",
                                     assert_expected_type(v.t1.ty, "field", v.st))
        ELSE IF v.t1.ty # NoType
        THEN assert_expected_type_of(expected, return_incorrect_type(v.t1, v.t2, expected), v.t1.ty,
                                     assert_magnitude_type(v.t2.ty, v.st))
        ELSE Visited(v.t2, assert_magnitude_type(v.t2.ty, v.st)))

visit_equality(input, expected, st) ==
    Let(visit_operands(input, NoType, st), LAMBDA v :
        Visited(replace(return_incorrect_type(v.t1, v.t2, NoType), "boolean"),
                assert_eq_types(v.t1.ty, v.t2.ty, v.st)))

visit_relational(input, expected, st) ==
    Let(visit_expression(input.left, NoType, st), LAMBDA t1 :
    Let(visit_expression(input.right, NoType,
                         assert_one_of_types(t1.out.ty, ADDRESS_FIELD_SCALAR_INT_TYPES, t1.st)),
        LAMBDA t2 :
        Visited(replace(return_incorrect_type(t1.out, t2.out, NoType), "boolean"),
                assert_eq_types(t1.out.ty, t2.out.ty,
                                assert_one_of_types(t2.out.ty, ADDRESS_FIELD_SCALAR_INT_TYPES, t2.st)))))

visit_shift(input, expected, st) ==
    Let(visit_expression(input.left, expected, assert_one_of_types(expected, INT_TYPES, st)),
        LAMBDA t1 :
    Let(visit_expression(input.right, NoType, t1.st), LAMBDA t2 :
        Visited(t1.out, assert_magnitude_type(t2.out.ty, t2.st))))

visit_binary(input, expected, st) ==
    CASE input.op \in {"And", "Or", "Nand", "Nor"} -> visit_logical(input, expected, st)
      [] input.op \in {"BitwiseAnd", "BitwiseOr", "Xor"} ->
            visit_same_class(input, expected, assert_one_of_types(expected, BOOL_INT_TYPES, st))
      [] input.op = "Add" ->
            visit_same_class(input, expected,
                             assert_one_of_types(expected, FIELD_GROUP_SCALAR_INT_TYPES, st))
      [] input.op = "Sub" ->
            visit_same_class(input, expected, assert_one_of_types(expected, FIELD_GROUP_INT_TYPES, st))
      [] input.op = "Mul" -> visit_mul(input, expected, st)
      [] input.op = "Div" ->
            visit_same_class(input, expected, assert_one_of_types(expected, FIELD_INT_TYPES, st))
      [] input.op = "Pow" -> visit_pow(input, expected, st)
      [] input.op \in {"Eq", "Neq"} -> visit_equality(input, expected, st)
      [] input.op \in {"Lt", "Gt", "Lte", "Gte"} -> visit_relational(input, expected, st)
      [] input.op \in {"AddWrapped", "SubWrapped", "DivWrapped", "MulWrapped"} ->
            visit_same_class(input, expected, assert_one_of_types(expected, INT_TYPES, st))
      [] input.op \in {"Shl", "ShlWrapped", "Shr", "ShrWrapped", "PowWrapped"} ->
            visit_shift(input, expected, st)

\* the Negate arm of visit_unary
visit_negate(input, expected, st) ==
    Let(visit_expression(input.receiver, expected,
                         [st EXCEPT !.negate = negate_toggled(st.negate)]), LAMBDA r :
        IF r.st.panic # "none" THEN r
        ELSE Let([r.st EXCEPT !.negate = negate_restored(st.negate, r.st.negate)], LAMBDA st2 :
                 Visited(r.out,
                         IF r.out.ty # NoType /\ ~IsNegatable(r.out.ty)
                         THEN emit_err(st2, type_is_not_negatable(r.out.ty))
                         ELSE st2)))

visit_unary(input, expected, st) ==
    CASE input.op = "Negate" -> visit_negate(input, expected, st)
      [] input.op \in {"Abs", "AbsWrapped"} ->
            visit_expression(input.receiver, expected,
                             assert_one_of_types(expected, SIGNED_INT_TYPES, st))
      [] input.op = "Double" ->
            visit_expression(input.receiver, expected,
                             assert_one_of_types(expected, FIELD_GROUP_TYPES, st))
      [] input.op \in {"Inverse", "Square"} ->
            visit_expression(input.receiver, expected,
                             assert_expected_type(expected, "field", st))
      [] input.op = "Not" ->
            visit_expression(input.receiver, expected,
                             assert_one_of_types(expected, BOOL_INT_TYPES, st))
      [] input.op = "SquareRoot" ->
            visit_expression(input.receiver, expected,
                             assert_one_of_types(expected, FIELD_SCALAR_TYPES, st))

visit_ternary(input, expected, st) ==
    Let(visit_expression(input.condition, "boolean", st), LAMBDA c :
    Let(visit_expression(input.if_true, expected, c.st), LAMBDA t1 :
    Let(visit_expression(input.if_false, expected, t1.st), LAMBDA t2 :
        Visited(return_incorrect_type(t1.out, t2.out, NoType), t2.st))))

\* the arguments `func.input.iter().zip(input.arguments.iter())` pairs up
zipped(n, m) == IF n < m THEN n ELSE m

\* `.for_each(|(expected, argument)| { self.visit_expression(argument, ..); })`
\* over the first `count` arguments; the outputs are dropped
RECURSIVE visit_arguments(_, _, _, _, _)
visit_arguments(params, arguments, i, count, st) ==
    IF i > count THEN st
    ELSE visit_arguments(params, arguments, i + 1, count,
                         visit_expression(arguments[i],
                                          IF i <= Len(params) THEN params[i].type_ ELSE NoType,
                                          st).st)

\* the Identifier arm of visit_call for a known function
visit_known_call(func, input, expected, st) ==
    Let(IF expected # NoType THEN assert_expected_option(func.type_, NoOutput, expected, st)
        ELSE Visited(TypeOnly(func.type_), st), LAMBDA ret :
        Visited(ret.out,
                visit_arguments(
                    func.input, input.arguments, 1,
                    zipped(Len(func.input), Len(input.arguments)),
                    IF Len(func.input) # Len(input.arguments)
                    THEN emit_err(ret.st, incorrect_num_args_to_call(Len(func.input),
                                                                     Len(input.arguments)))
                    ELSE ret.st)))

visit_call(input, expected, st) ==
    IF input.function.k = "Identifier"
    THEN IF lookup_fn(input.function.name) # NoSymbol
         THEN visit_known_call(lookup_fn(input.function.name), input, expected, st)
         ELSE Visited(NoOutput, emit_err(st, unknown_sym("function", input.function.name)))
    ELSE visit_expression(input.function, expected, st)

\* `input.members.get(name)`: the initializer of the name, if there is one
has_initializer(members, name) == \E i \in 1..Len(members) : members[i].identifier = name

get_initializer(members, name) ==
    members[CHOOSE i \in 1..Len(members) : members[i].identifier = name]

\* `if let Some(member_value) = member_value { members.insert(*name, member_value); }`
insert_member_value(members, name, member_output) ==
    IF member_output.val # NoValue
    THEN Append(members, [name |-> name, value |-> member_output.val])
    ELSE members

\* the loop of visit_circuit_init over the declared members, from the i-th
RECURSIVE check_circuit_members(_, _, _, _, _, _)
check_circuit_members(circ, input, i, output, members, st) ==
    IF i > Len(circ.members)
    THEN Visited(replace_value(output, CircuitValue(circ.identifier, members)), st)
    ELSE IF ~has_initializer(input.members, circ.members[i].name)
    THEN check_circuit_members(
             circ, input, i + 1, output, members,
             emit_err(st, unknown_sym("circuit member variable", circ.members[i].name)))
    ELSE IF get_initializer(input.members, circ.members[i].name).expression.k # "None"
    THEN Let(visit_expression(get_initializer(input.members, circ.members[i].name).expression,
                              circ.members[i].type_, st), LAMBDA member_output :
             check_circuit_members(
                 circ, input, i + 1, member_output.out,
                 insert_member_value(members, circ.members[i].name, member_output.out),
                 member_output.st))
    ELSE IF lookup_variable(circ.members[i].name) # NoSymbol
    THEN Let(assert_expected_option(lookup_variable(circ.members[i].name).type_,
                                    VariableOutput(lookup_variable(circ.members[i].name)),
                                    circ.members[i].type_, st), LAMBDA member_output :
             check_circuit_members(
                 circ, input, i + 1, member_output.out,
                 insert_member_value(members, circ.members[i].name, member_output.out),
                 member_output.st))
    ELSE Visited(NoOutput, emit_err(st, unknown_sym("variable", input.name)))

visit_circuit_init(input, additional, st) ==
    IF lookup_circuit(input.name) # NoSymbol
    THEN Let(lookup_circuit(input.name), LAMBDA circ :
             check_circuit_members(
                 circ, input, 1, TypeOnly(circ.identifier), <<>>,
                 IF Len(circ.members) # Len(input.members)
                 THEN emit_err(assert_expected_circuit(circ.identifier, additional, st),
                               incorrect_num_circuit_members(Len(circ.members), Len(input.members)))
                 ELSE assert_expected_circuit(circ.identifier, additional, st)))
    ELSE Visited(NoOutput, emit_err(st, unknown_sym("circuit", input.name)))

\* visit_expression: the dispatch on the variant; nothing runs once the thread
\* has panicked
visit_expression(input, expected, st) ==
    IF st.panic # "none" THEN Visited(NoOutput, st)
    ELSE CASE input.k = "MemberAccess" -> visit_access(input, expected, st)
           [] input.k = "Identifier" -> visit_identifier(input, expected, st)
           [] input.k = "Literal" -> visit_literal(input, expected, st)
           [] input.k = "Binary" -> visit_binary(input, expected, st)
           [] input.k = "Unary" -> visit_unary(input, expected, st)
           [] input.k = "Ternary" -> visit_ternary(input, expected, st)
           [] input.k = "Call" -> visit_call(input, expected, st)
           [] input.k = "Err" -> Visited(NoOutput, st)
           [] input.k = "Struct" -> visit_circuit_init(input, expected, st)

(***************************************************************************)
(* expression.rs: the expression parser.  A token is [token, value, lo,    *)
(* hi]: its kind, its text (for Int, Ident, AddressLit, StaticString) and  *)
(* its span.  The parser context is [tokens, pos,                          *)
(* disallow_circuit_construction]: `self.token` is tokens[pos] and         *)
(* `self.prev_token` is tokens[pos - 1].  Parsing yields the nodes the     *)
(* type checker visits.                                                    *)
(***************************************************************************)
Tok(token, value, lo, hi) == [token |-> token, value |-> value, lo |-> lo, hi |-> hi]

\* the type-suffix tokens of a literal (`const INT_TYPES: &[Token]`)
INT_TYPE_TOKENS ==
    <<"I8", "I16", "I32", "I64", "I128", "U8", "U16", "U32", "U64", "U128",
      "Field", "Group", "Scalar">>

\* ParserContext::token_to_int_type
token_to_int_type(token) ==
    CASE token = "I8" -> "i8" [] token = "I16" -> "i16" [] token = "I32" -> "i32"
      [] token = "I64" -> "i64" [] token = "I128" -> "i128"
      [] token = "U8" -> "u8" [] token = "U16" -> "u16" [] token = "U32" -> "u32"
      [] token = "U64" -> "u64" [] token = "U128" -> "u128"
      [] OTHER -> NoType

\* Token::to_string of a type token
token_to_string(token) ==
    CASE token = "Field" -> "field" [] token = "Group" -> "group"
      [] token = "Scalar" -> "scalar" [] token = "Bool" -> "bool"
      [] token = "Address" -> "address"
      [] OTHER -> token_to_int_type(token)

\* crate::type_::TYPE_TOKENS
TYPE_TOKENS == INT_TYPE_TOKENS \o <<"Bool", "Address">>

Binary(op, left, right) == [k |-> "Binary", op |-> op, left |-> left, right |-> right]

Ternary(condition, if_true, if_false) ==
    [k |-> "Ternary", condition |-> condition, if_true |-> if_true, if_false |-> if_false]

Call(function, arguments) == [k |-> "Call", function |-> function, arguments |-> arguments]

Identifier(name) == [k |-> "Identifier", name |-> name]

NoExpr == [k |-> "None"]

NoErr == [kind |-> "none", args |-> <<>>]

\* ParserError::unexpected_str(found, expected, span)
unexpected_str(found, expected) == [kind |-> "unexpected_str", args |-> << <<found>>, <<expected>> >>]

\* ParserError::unexpected(found, expected, span)
unexpected(found, expected) == [kind |-> "unexpected", args |-> << <<found>>, <<expected>> >>]

\* ParserError::unexpected_whitespace(left, right, span)
unexpected_whitespace(left, right) == [kind |-> "unexpected_whitespace", args |-> <<left, <<right>> >>]

\* ParserError::implicit_values_not_allowed(value, span)
implicit_values_not_allowed(value) == [kind |-> "implicit_values_not_allowed", args |-> <<value>>]

\* Result<Expression> and the context after the call
Parsed(expr, p) == [ok |-> TRUE, expr |-> expr, err |-> NoErr, p |-> p]

Failed(err, p) == [ok |-> FALSE, expr |-> NoExpr, err |-> err, p |-> p]

\* ParserContext::new: the context standing at the first token
NewContext(tokens) == [tokens |-> tokens, pos |-> 1, disallow_circuit_construction |-> FALSE]

\* the token `dist` places ahead (Eof, at the end of the text, past the last one)
look_ahead(p, dist) ==
    IF p.pos + dist <= Len(p.tokens) THEN p.tokens[p.pos + dist]
    ELSE LET end == IF p.tokens = <<>> THEN 0 ELSE p.tokens[Len(p.tokens)].hi
         IN Tok("Eof", <<>>, end, end)

\* self.token
CurToken(p) == look_ahead(p, 0)

\* ParserContext::bump
bump(p) == [p EXCEPT !.pos = @ + 1]

\* ParserContext::check
check(p, token) == CurToken(p).token = token

\* ParserContext::eat_any, its boolean: the context is bumped when it is true
eat_any(p, tokens) == CurToken(p).token \in Range(tokens)

\* assert_no_whitespace: the error when the two spans do not touch
assert_no_whitespace(left_span, right_span, left, right) ==
    IF left_span.hi # right_span.lo THEN unexpected_whitespace(left, right) ELSE NoErr

\* eat_bin_op: the operation of the token eaten
eat_bin_op(token) ==
    CASE token = "Eq" -> "Eq" [] token = "NotEq" -> "Neq" [] token = "Lt" -> "Lt"
      [] token = "LtEq" -> "Lte" [] token = "Gt" -> "Gt" [] token = "GtEq" -> "Gte"
      [] token = "Add" -> "Add" [] token = "Minus" -> "Sub" [] token = "Mul" -> "Mul"
      [] token = "Div" -> "Div" [] token = "Or" -> "Or" [] token = "And" -> "And"
      [] token = "Exp" -> "Pow"

bin_expr(left, right, op) == Binary(op, left, right)

\* GroupCoordinate as the text it is printed with
GroupCoordinateText(gc) ==
    CASE gc.kind = "Number" -> gc.value
      [] gc.kind = "SignHigh" -> <<"+">>
      [] gc.kind = "SignLow" -> <<"-">>
      [] gc.kind = "Inferred" -> <<"_">>

\* peek_group_coordinate: [some, advanced, gc] for the token `dist` ahead
peek_group_coordinate(p, dist) ==
    LET t0 == look_ahead(p, dist)
        t1 == look_ahead(p, dist + 1)
        none == [some |-> FALSE, advanced |-> 0, gc |-> [kind |-> "None", value |-> <<>>]]
        some(n, kind, value) == [some |-> TRUE, advanced |-> n, gc |-> [kind |-> kind, value |-> value]]
    IN CASE t0.token = "Add" -> some(1, "SignHigh", <<>>)
         [] t0.token = "Minus" ->
               IF t1.token = "Int" THEN some(2, "Number", <<"-">> \o t1.value)
               ELSE some(1, "SignLow", <<>>)
         [] t0.token = "Underscore" -> some(1, "Inferred", <<>>)
         [] t0.token = "Int" -> some(1, "Number", t0.value)
         [] OTHER -> none

\* eat_group_partial: [some, ok, text, err, p]; `some` is FALSE when the tokens
\* ahead are not `(gc, gc)group`, and then nothing is eaten
eat_group_partial(p) ==
    LET first_gc == peek_group_coordinate(p, 1)
        d1 == 1 + first_gc.advanced
        second_gc == peek_group_coordinate(p, d1 + 1)
        d2 == d1 + 1 + second_gc.advanced
        right_paren_span == look_ahead(p, d2)
        end_span == look_ahead(p, d2 + 1)
        dist == d2 + 2
        text == <<"(">> \o GroupCoordinateText(first_gc.gc) \o <<",">>
                  \o GroupCoordinateText(second_gc.gc) \o <<")">>
        none == [some |-> FALSE, ok |-> FALSE, text |-> <<>>, err |-> NoErr, p |-> p]
    IN IF ~first_gc.some THEN none
       ELSE IF look_ahead(p, d1).token # "Comma" THEN none
       ELSE IF ~second_gc.some THEN none
       ELSE IF right_paren_span.token # "RightParen" THEN none
       ELSE IF end_span.token # "Group" THEN none
       ELSE LET e == assert_no_whitespace(right_paren_span, end_span, text, "group")
                eaten == [p EXCEPT !.pos = @ + dist]
            IN [some |-> TRUE, ok |-> e = NoErr, text |-> text, err |-> e, p |-> eaten]

\* the parsing function named f, called on the context p: every call of one
\* parsing function by another goes through here
RECURSIVE parse_by(_, _)

\* the `for (op, op_span) in ops.into_iter().rev()` loop of
\* parse_unary_expression: the operator eaten last wraps first
RECURSIVE wrap_unary_ops(_, _)
wrap_unary_ops(ops, inner) ==
    IF ops = <<>> THEN inner
    ELSE wrap_unary_ops(SubSeq(ops, 1, Len(ops) - 1), Unary(ops[Len(ops)], inner))

\* the `while self.eat_any(&[Token::Not, Token::Minus])` loop of
\* parse_unary_expression: [ops, p]
RECURSIVE eat_unary_ops(_, _)
eat_unary_ops(ops, p) ==
    IF eat_any(p, <<"Not", "Minus">>)
    THEN eat_unary_ops(Append(ops, IF CurToken(p).token = "Not" THEN "Not" ELSE "Negate"), bump(p))
    ELSE [ops |-> ops, p |-> p]

\* the `while !self.check(&close)` loop of parse_list, called by
\* parse_paren_comma_list with parse_expression for the elements
RECURSIVE parse_list_loop(_, _, _)
parse_list_loop(list, trailing, p) ==
    IF check(p, "RightParen") THEN [ok |-> TRUE, list |-> list, trailing |-> trailing, err |-> NoErr, p |-> p]
    ELSE LET elem == parse_by("parse_expression", p)
         IN IF ~elem.ok
            THEN [ok |-> FALSE, list |-> list, trailing |-> trailing, err |-> elem.err, p |-> elem.p]
            ELSE IF ~check(elem.p, "Comma")
            THEN [ok |-> TRUE, list |-> Append(list, elem.expr), trailing |-> FALSE,
                  err |-> NoErr, p |-> elem.p]
            ELSE parse_list_loop(Append(list, elem.expr), TRUE, bump(elem.p))

\* ParserContext::parse_paren_comma_list: [ok, list, trailing, err, p]
parse_paren_comma_list(p) ==
    IF ~check(p, "LeftParen")
    THEN [ok |-> FALSE, list |-> <<>>, trailing |-> FALSE,
          err |-> unexpected(CurToken(p).token, "("), p |-> p]
    ELSE LET l == parse_list_loop(<<>>, FALSE, bump(p))
         IN IF ~l.ok THEN l
            ELSE IF ~check(l.p, "RightParen")
            THEN [l EXCEPT !.ok = FALSE, !.err = unexpected(CurToken(l.p).token, ")")]
            ELSE [l EXCEPT !.p = bump(l.p)]

\* parse_tuple_expression: a group-tuple literal, or the one expression between
\* the parentheses, which is returned as it is
parse_tuple_expression(p) ==
    LET gt == eat_group_partial(p)
        l == parse_paren_comma_list(p)
    IN IF gt.some
       THEN IF gt.ok THEN Parsed(Literal("Group", "group", gt.text), gt.p) ELSE Failed(gt.err, gt.p)
       ELSE IF ~l.ok THEN Failed(l.err, l.p)
       ELSE IF ~l.trailing /\ Len(l.list) = 1 THEN Parsed(l.list[1], l.p)
       ELSE Failed(unexpected("A tuple expression.", "A valid expression."), l.p)

\* the Token::Int arm of parse_primary_expression; p stands after the number
parse_int_literal(token, p) ==
    LET suffix == CurToken(p)
        e == assert_no_whitespace(token, suffix, token.value, token_to_string(suffix.token))
    IN IF ~eat_any(p, INT_TYPE_TOKENS) THEN Failed(implicit_values_not_allowed(token.value), p)
       ELSE IF e # NoErr THEN Failed(e, bump(p))
       ELSE CASE suffix.token = "Field" -> Parsed(Literal("Field", "field", token.value), bump(p))
              [] suffix.token = "Group" -> Parsed(Literal("Group", "group", token.value), bump(p))
              [] suffix.token = "Scalar" -> Parsed(Literal("Scalar", "scalar", token.value), bump(p))
              [] OTHER -> Parsed(Literal("Integer", token_to_int_type(suffix.token), token.value),
                                 bump(p))

parse_primary_expression(p) ==
    IF check(p, "LeftParen") THEN parse_by("parse_tuple_expression", p)
    ELSE LET token == CurToken(p)
             q == bump(p)
         IN CASE token.token = "Int" -> parse_int_literal(token, q)
              [] token.token = "True" -> Parsed(Literal("Boolean", "boolean", <<"true">>), q)
              [] token.token = "False" -> Parsed(Literal("Boolean", "boolean", <<"false">>), q)
              [] token.token = "AddressLit" -> Parsed(Literal("Address", "address", token.value), q)
              [] token.token = "StaticString" -> Parsed(Literal("String", "string", token.value), q)
              [] token.token = "Ident" -> Parsed(Identifier(token.value), q)
              [] token.token \in Range(TYPE_TOKENS) ->
                    Parsed(Identifier(<<token_to_string(token.token)>>), q)
              [] OTHER -> Failed(unexpected_str(token.token, "expression"), q)

\* the `loop` of parse_postfix_expression
RECURSIVE parse_postfix_loop(_, _)
parse_postfix_loop(expr, p) ==
    IF check(p, "Dot") THEN Failed(unexpected_str(CurToken(bump(p)).token, "int or ident"), bump(p))
    ELSE IF ~check(p, "LeftParen") THEN Parsed(expr, p)
    ELSE LET l == parse_paren_comma_list(p)
         IN IF ~l.ok THEN Failed(l.err, l.p) ELSE parse_postfix_loop(Call(expr, l.list), l.p)

parse_postfix_expression(p) ==
    LET expr == parse_by("parse_primary_expression", p)
    IN IF expr.ok THEN parse_postfix_loop(expr.expr, expr.p) ELSE expr

parse_unary_expression(p) ==
    LET eaten == eat_unary_ops(<<>>, p)
        inner == parse_by("parse_postfix_expression", eaten.p)
    IN IF inner.ok THEN Parsed(wrap_unary_ops(eaten.ops, inner.expr), inner.p) ELSE inner

parse_exponential_expression(p) ==
    LET expr == parse_by("parse_unary_expression", p)
        right == parse_by("parse_exponential_expression", bump(expr.p))
    IN IF expr.ok /\ eat_any(expr.p, <<"Exp">>)
       THEN IF right.ok
            THEN Parsed(bin_expr(expr.expr, right.expr, eat_bin_op(CurToken(expr.p).token)), right.p)
            ELSE right
       ELSE expr

\* the `while let Some(op) = self.eat_bin_op(tokens)` loop of parse_bin_expr
RECURSIVE parse_bin_expr_loop(_, _, _, _)
parse_bin_expr_loop(tokens, f, expr, p) ==
    IF ~eat_any(p, tokens) THEN Parsed(expr, p)
    ELSE LET right == parse_by(f, bump(p))
         IN IF ~right.ok THEN right
            ELSE parse_bin_expr_loop(tokens, f,
                     bin_expr(expr, right.expr, eat_bin_op(CurToken(p).token)), right.p)

\* parse_bin_expr: left-associative `<left> token <right>`, f parsing each
\* side; `first` is f's result for the left-most operand
parse_bin_expr(tokens, f, first) ==
    IF first.ok THEN parse_bin_expr_loop(tokens, f, first.expr, first.p) ELSE first

parse_multiplicative_expression(p) ==
    parse_bin_expr(<<"Mul", "Div">>, "parse_exponential_expression",
                   parse_by("parse_exponential_expression", p))

parse_additive_expression(p) ==
    parse_bin_expr(<<"Add", "Minus">>, "parse_multiplicative_expression",
                   parse_by("parse_multiplicative_expression", p))

parse_ordering_expression(p) ==
    LET expr == parse_by("parse_additive_expression", p)
        right == parse_by("parse_additive_expression", bump(expr.p))
    IN IF expr.ok /\ eat_any(expr.p, <<"Lt", "LtEq", "Gt", "GtEq">>)
       THEN IF right.ok
            THEN Parsed(bin_expr(expr.expr, right.expr, eat_bin_op(CurToken(expr.p).token)), right.p)
            ELSE right
       ELSE expr

parse_equality_expression(p) ==
    LET expr == parse_by("parse_ordering_expression", p)
        right == parse_by("parse_ordering_expression", bump(expr.p))
    IN IF expr.ok /\ eat_any(expr.p, <<"Eq", "NotEq">>)
       THEN IF right.ok
            THEN Parsed(bin_expr(expr.expr, right.expr, eat_bin_op(CurToken(expr.p).token)), right.p)
            ELSE right
       ELSE expr

parse_conjunctive_expression(p) ==
    parse_bin_expr(<<"And">>, "parse_equality_expression", parse_by("parse_equality_expression", p))

parse_disjunctive_expression(p) ==
    parse_bin_expr(<<"Or">>, "parse_conjunctive_expression", parse_by("parse_conjunctive_expression", p))

parse_conditional_expression(p) ==
    LET expr == parse_by("parse_disjunctive_expression", p)
        if_true == parse_by("parse_expression", bump(expr.p))
        if_false == parse_by("parse_conditional_expression", bump(if_true.p))
    IN IF ~(expr.ok /\ check(expr.p, "Question")) THEN expr
       ELSE IF ~if_true.ok THEN if_true
       ELSE IF ~check(if_true.p, "Colon")
       THEN Failed(unexpected(CurToken(if_true.p).token, ":"), if_true.p)
       ELSE IF ~if_false.ok THEN if_false
       ELSE Parsed(Ternary(expr.expr, if_true.expr, if_false.expr), if_false.p)

parse_expression(p) ==
    LET prior_fuzzy_state == p.disallow_circuit_construction
        result == parse_by("parse_conditional_expression", [p EXCEPT !.disallow_circuit_construction = FALSE])
    IN [result EXCEPT !.p.disallow_circuit_construction = prior_fuzzy_state]

parse_by(f, p) ==
    CASE f = "parse_expression" -> parse_expression(p)
      [] f = "parse_conditional_expression" -> parse_conditional_expression(p)
      [] f = "parse_disjunctive_expression" -> parse_disjunctive_expression(p)
      [] f = "parse_conjunctive_expression" -> parse_conjunctive_expression(p)
      [] f = "parse_equality_expression" -> parse_equality_expression(p)
      [] f = "parse_ordering_expression" -> parse_ordering_expression(p)
      [] f = "parse_additive_expression" -> parse_additive_expression(p)
      [] f = "parse_multiplicative_expression" -> parse_multiplicative_expression(p)
      [] f = "parse_exponential_expression" -> parse_exponential_expression(p)
      [] f = "parse_unary_expression" -> parse_unary_expression(p)
      [] f = "parse_postfix_expression" -> parse_postfix_expression(p)
      [] f = "parse_primary_expression" -> parse_primary_expression(p)
      [] f = "parse_tuple_expression" -> parse_tuple_expression(p)

\* no text parsed yet
NoParse == Failed(NoErr, NewContext(<<>>))

InitParser ==
    /\ source = <<>>
    /\ parsed = NoParse

(***************************************************************************)
(* resolver.rs: the import resolvers.  A package segment and a module path *)
(* are texts, kept as sequences of words and "." so that `join(".")` and   *)
(* the match on the dotted path are computed.                              *)
(***************************************************************************)
\* Result<Option<Program>>: Ok(None) and Ok(Some(program))
NoProgram == [circuits |-> <<>>]

OkNone == [ok |-> TRUE, some |-> FALSE, program |-> NoProgram]

OkSome(program) == [ok |-> TRUE, some |-> TRUE, program |-> program]

\* [&str]::join(sep)
RECURSIVE join(_, _)
join(segments, sep) ==
    IF segments = <<>> THEN <<>>
    ELSE IF Len(segments) = 1 THEN segments[1]
    ELSE segments[1] \o sep \o join(Tail(segments), sep)

\* the whole of the segments taken for the module path
all_segments(package_segments) == package_segments

\* `package_segments[1..]`
segments_after_core(package_segments) == SubSeq(package_segments, 2, Len(package_segments))

\* the program that load_ast parses from the text of the Blake2s circuit
Blake2sAst ==
    [circuits |->
        << [circuit_name |-> "Blake2s",
            core_mapping |-> "none",
            members |->
                << [kind |-> "function",
                    name |-> "hash",
                    input |-> << [name |-> "seed", type_ |-> "[u8; 32]"],
                                 [name |-> "message", type_ |-> "[u8; 32]"] >>,
                    output |-> "[u8; 32]"] >>] >>]

\* load_ast
load_ast(content) == content

\* the core mapping left unset
core_mapping_unset(ast, mapping) == ast

\* Program::set_core_mapping: every circuit of the program is tagged
set_core_mapping(ast, mapping) ==
    [circuits |-> [i \in 1..Len(ast.circuits) |-> [ast.circuits[i] EXCEPT !.core_mapping = mapping]]]

resolve_core_module(module) ==
    IF module = <<"unstable", ".", "blake2s">>
    THEN OkSome(set_core_mapping(load_ast(Blake2sAst), "blake2s"))
    ELSE OkNone

\* NullImportResolver::resolve_package
null_resolve_package(package_segments) == OkNone

\* MockedImportResolver::resolve_package
mocked_resolve_package(packages, package_segments) ==
    LET path == join(package_segments, <<".">>)
    IN IF path \in DOMAIN packages THEN OkSome(packages[path]) ELSE OkNone

\* self.inner.resolve_package: inner_ is [kind, packages]
inner_resolve_package(inner_, package_segments) ==
    IF inner_.kind = "Mocked" THEN mocked_resolve_package(inner_.packages, package_segments)
    ELSE null_resolve_package(package_segments)

\* "core" looked for in every segment
any_is_core(package_segments) ==
    \E i \in 1..Len(package_segments) : package_segments[i] = <<"core">>

\* `!package_segments.is_empty() && package_segments.get(0).unwrap() == &"core"`
first_is_core(package_segments) ==
    package_segments # <<>> /\ package_segments[1] = <<"core">>

\* no call made on self.inner
NoCall == [made |-> FALSE, segments |-> <<>>]

\* the call CoreImportResolver::resolve_package makes on self.inner
inner_call(package_segments) ==
    IF first_is_core(package_segments) THEN NoCall
    ELSE [made |-> TRUE, segments |-> package_segments]

\* CoreImportResolver::resolve_package
core_resolve_package(inner_, package_segments) ==
    IF first_is_core(package_segments)
    THEN resolve_core_module(join(segments_after_core(package_segments), <<".">>))
    ELSE inner_resolve_package(inner_, package_segments)

\* a program of the tests' MockedImportResolver
MockedProgram(name) ==
    [circuits |-> << [circuit_name |-> name, core_mapping |-> "none", members |-> <<>>] >>]

NullImportResolver == [kind |-> "Null", packages |-> <<>>]

\* packages preloaded under `lib` and under `core.unstable.blake2s`
MockedImportResolver ==
    [kind |-> "Mocked",
     packages |->
        [path \in {<<"lib">>, <<"core", ".", "unstable", ".", "blake2s">>} |->
            IF path[1] = "lib" THEN MockedProgram("Lib") ELSE MockedProgram("Shadow")]]

InitResolver ==
    /\ inner_resolver = NullImportResolver
    /\ last_segments = <<>>
    /\ resolved = FALSE
    /\ resolution = OkNone
    /\ inner_called = NoCall

(***************************************************************************)
(* Flattening (flatten_program.rs, flatten_statement.rs,                   *)
(* flatten_expression.rs).  The Flattener struct is threaded through the   *)
(* reconstructors as a record `fs`; every reconstructor returns what the   *)
(* code returns together with the Flattener after the call.  Variable      *)
(* names are sequences (<<"x">>, and <<base, separator, n>> for the names  *)
(* the Definer makes); record and member names are strings.                *)
(***************************************************************************)
Block(statements) == [k |-> "Block", statements |-> statements]

Assign(place, value) == [k |-> "Assign", place |-> place, value |-> value]

Conditional(condition, then, otherwise) ==
    [k |-> "Conditional", condition |-> condition, then |-> then, otherwise |-> otherwise]

Return(expression) == [k |-> "Return", expression |-> expression]

Finalize(arguments) == [k |-> "Finalize", arguments |-> arguments]

\* Statement::dummy(..): the sentinel left in the place of an erased statement
Dummy == [k |-> "Dummy"]

\* Option::None for an `otherwise` or a `finalize`
NoStatement == [k |-> "None"]

Tuple(elements) == [k |-> "Tuple", elements |-> elements]

\* AccessExpression::Tuple: `tuple.index`, index counted from 0
TupleAccess(tuple, index) == [k |-> "TupleAccess", tuple |-> tuple, index |-> index]

\* AccessExpression::Member: `inner.name`
MemberAccess(inner, name) == [k |-> "MemberAccess", inner |-> inner, name |-> name]

Struct(name, members) == [k |-> "Struct", name |-> name, members |-> members]

StructVariableInitializer(identifier, expression) ==
    [identifier |-> identifier, expression |-> expression]

\* the expression left where the pass panicked (unwrap on None, unreachable!)
ErrExpr == [k |-> "Err"]

\* Type::Identifier(struct_name) and the primitive types
TypeIdentifier(name) == [k |-> "Identifier", name |-> name]

TypePrimitive(name) == [k |-> "Primitive", name |-> name]

FunctionInput(identifier, type_) == [identifier |-> identifier, type_ |-> type_]

FinalizeBlock(input, block) == [k |-> "Finalize", input |-> input, block |-> block]

Function(input, block, finalize) ==
    [k |-> "Function", input |-> input, block |-> block, finalize |-> finalize]

NoFunction == [k |-> "None"]

\* the records the symbol table holds, members in declaration order
NoStruct == [identifier |-> "", members |-> <<>>]

StructDeclarations ==
    << [identifier |-> "Foo", members |-> <<"x", "y">>],
       [identifier |-> "Bar", members |-> <<"p", "q", "r">>] >>

lookup_struct(name) ==
    IF \E i \in 1..Len(StructDeclarations) : StructDeclarations[i].identifier = name
    THEN StructDeclarations[CHOOSE i \in 1..Len(StructDeclarations) :
                                StructDeclarations[i].identifier = name]
    ELSE NoStruct

\* struct Circuit: the name, the members in declaration order, the span of the
\* definition
Circuit(identifier, members, span) == [identifier |-> identifier, members |-> members, span |-> span]

\* the derived comparison of all fields
circuit_eq_derived(first_struct, second_struct) == first_struct = second_struct

\* Circuit's PartialEq: two records are equal when their identifiers are
circuit_eq(first_struct, second_struct) == first_struct.identifier = second_struct.identifier

NoComparison == [made |-> FALSE]

InitCircuits == comparison = NoComparison

\* Flattener::new: empty stack, lists and maps, a Definer counting from 0
Flattener_new ==
    [condition_stack |-> <<>>, returns |-> <<>>, finalizes |-> <<>>,
     tuples |-> <<>>, structs |-> <<>>, counter |-> 0, panic |-> "none"]

\* a panic of the pass: an unwrap on None, an unreachable!, a failed assert_eq!
panicked(fs, message) == [fs EXCEPT !.panic = IF fs.panic = "none" THEN message ELSE fs.panic]

\* IndexMap::contains_key, get and insert
contains_key(map, key) == key \in DOMAIN map

map_insert(map, key, value) ==
    [n \in (DOMAIN map) \cup {key} |-> IF n = key THEN value ELSE map[n]]

\* Display of a usize: its decimal digits
RECURSIVE usize_to_string(_)
usize_to_string(n) ==
    IF n < 10 THEN <<Digits[n + 1]>>
    ELSE usize_to_string(n \div 10) \o <<Digits[(n % 10) + 1]>>

\* format!("{}{}{}", arg, separator, counter): the three texts in a row
format3(arg, separator, counter) == arg \o separator \o usize_to_string(counter)

\* DefinerInner::unique_symbol: the symbol is made of the counter before the increment
unique_symbol(arg, separator, counter) ==
    [symbol |-> format3(arg, separator, counter), counter |-> counter + 1]

\* Definer::default
Definer_default == [counter |-> 0, calls |-> <<>>]

InitDefiner == definer = Definer_default

\* self.condition_stack.push(..) and .pop()
condition_stack_keep(fs) == fs

\* the condition pushed twice
condition_stack_push_twice(fs, condition) ==
    [fs EXCEPT !.condition_stack = Append(Append(fs.condition_stack, condition), condition)]

condition_stack_push(fs, condition) ==
    [fs EXCEPT !.condition_stack = Append(fs.condition_stack, condition)]

condition_stack_pop(fs) ==
    [fs EXCEPT !.condition_stack = SubSeq(fs.condition_stack, 1, Len(fs.condition_stack) - 1)]

\* the condition pushed for the otherwise-block
plain_condition(condition) == condition

negated_condition(condition) == Unary("Not", condition)

\* the left fold of the first n conditions of the stack under logical AND
RECURSIVE conjunction(_, _)
conjunction(stack, n) ==
    IF n = 1 THEN stack[1] ELSE Binary("And", conjunction(stack, n - 1), stack[n])

\* Flattener::construct_guard: None for an empty stack
construct_guard(fs) ==
    IF fs.condition_stack = <<>> THEN NoExpr
    ELSE conjunction(fs.condition_stack, Len(fs.condition_stack))

\* Flattener::update_structs: a record-typed left-hand side is entered in the
\* structs map with the name of its record
update_structs(lhs, rhs, fs) ==
    CASE rhs.k = "Struct" -> [fs EXCEPT !.structs = map_insert(fs.structs, lhs.name, rhs.name)]
      [] rhs.k = "Identifier" /\ contains_key(fs.structs, rhs.name) ->
            [fs EXCEPT !.structs = map_insert(fs.structs, lhs.name, fs.structs[rhs.name])]
      [] OTHER -> fs

\* Flattener::unique_simple_assign_statement: `var$n = expr` for a fresh n
unique_simple_assign_statement(expr, fs) ==
    Let(unique_symbol(<<"v", "a", "r">>, <<"$">>, fs.counter), LAMBDA u :
    Let(Identifier(u.symbol), LAMBDA place :
        [identifier |-> place,
         statement |-> Assign(place, expr),
         fs |-> update_structs(place, expr, [fs EXCEPT !.counter = u.counter])]))

ExprOut(expr, statements, fs) == [expr |-> expr, statements |-> statements, fs |-> fs]

StmtOut(stmt, statements, fs) == [stmt |-> stmt, statements |-> statements, fs |-> fs]

RECURSIVE reconstruct_expression(_, _)

\* the default reconstructors map the operands and drop their statements
RECURSIVE reconstruct_operands(_, _, _, _)
reconstruct_operands(operands, i, done, fs) ==
    IF i > Len(operands) THEN [exprs |-> done, fs |-> fs]
    ELSE Let(reconstruct_expression(operands[i], fs), LAMBDA r :
             reconstruct_operands(operands, i + 1, Append(done, r.expr), r.fs))

reconstruct_access(input, fs) ==
    IF input.k = "MemberAccess"
    THEN Let(reconstruct_expression(input.inner, fs), LAMBDA r :
             ExprOut(MemberAccess(r.expr, input.name), <<>>, r.fs))
    ELSE Let(reconstruct_expression(input.tuple, fs), LAMBDA r :
             IF r.expr.k # "Identifier"
             THEN ExprOut(ErrExpr, r.statements, panicked(r.fs, "unreachable"))
             ELSE IF ~contains_key(r.fs.tuples, r.expr.name)
                     \/ input.index + 1 > Len(r.fs.tuples[r.expr.name])
             THEN ExprOut(ErrExpr, r.statements, panicked(r.fs, "unwrap"))
             ELSE ExprOut(r.fs.tuples[r.expr.name][input.index + 1], r.statements, r.fs))

RECURSIVE reconstruct_struct_members(_, _, _, _, _)
reconstruct_struct_members(input_members, i, members, statements, fs) ==
    IF i > Len(input_members) THEN [members |-> members, statements |-> statements, fs |-> fs]
    ELSE Let(reconstruct_expression(input_members[i].expression, fs), LAMBDA r :
             reconstruct_struct_members(
                 input_members, i + 1,
                 Append(members, StructVariableInitializer(input_members[i].identifier, r.expr)),
                 statements \o r.statements, r.fs))

reconstruct_struct_init(input, fs) ==
    Let(reconstruct_struct_members(input.members, 1, <<>>, <<>>, fs), LAMBDA r :
        ExprOut(Struct(input.name, r.members), r.statements, r.fs))

\* the record a variable of the structs map has (NoStruct: the unwrap fails)
struct_of(name, fs) ==
    IF contains_key(fs.structs, name) THEN lookup_struct(fs.structs[name]) ELSE NoStruct

\* the guards of the first two arms of reconstruct_ternary
either_struct(first, second, fs) ==
    contains_key(fs.structs, first.name) \/ contains_key(fs.structs, second.name)

both_structs(first, second, fs) ==
    contains_key(fs.structs, first.name) /\ contains_key(fs.structs, second.name)

both_tuples(first, second, fs) ==
    contains_key(fs.tuples, first.name) /\ contains_key(fs.tuples, second.name)

\* Flattener::ternary_struct: one fresh `var = condition ? first.m : second.m`
\* per member, in declaration order, then a fresh record init over them
RECURSIVE ternary_struct_members(_, _, _, _, _, _, _, _)
ternary_struct_members(members, i, condition, first, second, inits, statements, fs) ==
    IF i > Len(members) THEN [inits |-> inits, statements |-> statements, fs |-> fs]
    ELSE Let(unique_simple_assign_statement(
                 Ternary(condition, MemberAccess(first, members[i]),
                                    MemberAccess(second, members[i])), fs), LAMBDA a :
             ternary_struct_members(
                 members, i + 1, condition, first, second,
                 Append(inits, StructVariableInitializer(members[i], a.identifier)),
                 Append(statements, a.statement), a.fs))

ternary_struct(struct, condition, first, second, fs) ==
    Let(ternary_struct_members(struct.members, 1, condition, first, second, <<>>, <<>>, fs), LAMBDA m :
    Let(unique_simple_assign_statement(Struct(struct.identifier, m.inits), m.fs), LAMBDA a :
        ExprOut(a.identifier, Append(m.statements, a.statement), a.fs)))

RECURSIVE reconstruct_ternary(_, _)
reconstruct_ternary(input, fs) ==
    LET first == input.if_true
        second == input.if_false
        identifiers == first.k = "Identifier" /\ second.k = "Identifier"
    IN IF identifiers /\ both_structs(first, second, fs)
       THEN LET first_struct == struct_of(first.name, fs)
                second_struct == struct_of(second.name, fs)
            IN IF first_struct = NoStruct \/ second_struct = NoStruct
               THEN ExprOut(ErrExpr, <<>>, panicked(fs, "unwrap"))
               ELSE IF ~circuit_eq(first_struct, second_struct)
               THEN ExprOut(ErrExpr, <<>>, panicked(fs, "assert_eq"))
               ELSE ternary_struct(first_struct, input.condition, first, second, fs)
       ELSE IF identifiers /\ both_tuples(first, second, fs)
       THEN reconstruct_ternary(
                Ternary(input.condition, Tuple(fs.tuples[first.name]),
                                         Tuple(fs.tuples[second.name])), fs)
       ELSE Let(reconstruct_expression(first, fs), LAMBDA t :
            Let(reconstruct_expression(second, t.fs), LAMBDA f :
            Let(unique_simple_assign_statement(Ternary(input.condition, t.expr, f.expr), f.fs), LAMBDA a :
                ExprOut(a.identifier, Append(t.statements \o f.statements, a.statement), a.fs))))

\* ExpressionReconstructor::reconstruct_expression: the dispatch on the variant,
\* structural recursion for the variants the Flattener does not override
reconstruct_expression(input, fs) ==
    CASE input.k \in {"MemberAccess", "TupleAccess"} -> reconstruct_access(input, fs)
      [] input.k = "Struct" -> reconstruct_struct_init(input, fs)
      [] input.k = "Ternary" -> reconstruct_ternary(input, fs)
      [] input.k = "Tuple" ->
            Let(reconstruct_operands(input.elements, 1, <<>>, fs), LAMBDA r :
                ExprOut(Tuple(r.exprs), <<>>, r.fs))
      [] input.k = "Call" ->
            Let(reconstruct_operands(input.arguments, 1, <<>>, fs), LAMBDA r :
                ExprOut(Call(input.function, r.exprs), <<>>, r.fs))
      [] input.k = "Binary" ->
            Let(reconstruct_operands(<<input.left, input.right>>, 1, <<>>, fs), LAMBDA r :
                ExprOut(Binary(input.op, r.exprs[1], r.exprs[2]), <<>>, r.fs))
      [] input.k = "Unary" ->
            Let(reconstruct_expression(input.receiver, fs), LAMBDA r :
                ExprOut(Unary(input.op, r.expr), <<>>, r.fs))
      [] OTHER -> ExprOut(input, <<>>, fs)

reconstruct_assign(assign, fs) ==
    IF assign.place.k # "Identifier"
    THEN StmtOut(Dummy, <<>>, panicked(fs, "unreachable"))
    ELSE LET lhs == assign.place
             value == assign.value
         IN IF value.k = "Tuple"
            THEN StmtOut(Dummy, <<>>,
                         [fs EXCEPT !.tuples = map_insert(fs.tuples, lhs.name, value.elements)])
            ELSE IF value.k = "Identifier" /\ contains_key(fs.tuples, value.name)
            THEN StmtOut(Dummy, <<>>,
                         [fs EXCEPT !.tuples = map_insert(fs.tuples, lhs.name, fs.tuples[value.name])])
            ELSE Let(IF value.k = "Ternary" THEN reconstruct_ternary(value, fs)
                     ELSE ExprOut(value, <<>>, fs), LAMBDA r :
                     StmtOut(Assign(lhs, r.expr), r.statements, update_structs(lhs, r.expr, r.fs)))

RECURSIVE reconstruct_statement(_, _)

\* the additional statements put behind the statement they were made for
spliced_behind(statements, additional_statements, reconstructed_statement) ==
    Append(statements, reconstructed_statement) \o additional_statements

\* `statements.extend(additional_statements); statements.push(reconstructed_statement);`
spliced(statements, additional_statements, reconstructed_statement) ==
    Append(statements \o additional_statements, reconstructed_statement)

RECURSIVE reconstruct_block_loop(_, _, _, _)
reconstruct_block_loop(input, i, statements, fs) ==
    IF i > Len(input) THEN [statements |-> statements, fs |-> fs]
    ELSE Let(reconstruct_statement(input[i], fs), LAMBDA r :
             reconstruct_block_loop(input, i + 1, spliced(statements, r.statements, r.stmt), r.fs))

reconstruct_block(block, fs) ==
    Let(reconstruct_block_loop(block.statements, 1, <<>>, fs), LAMBDA r :
        [block |-> Block(r.statements), fs |-> r.fs])

reconstruct_conditional(conditional, fs) ==
    Let(reconstruct_block(conditional.then, condition_stack_push(fs, conditional.condition)), LAMBDA t :
    Let(condition_stack_pop(t.fs), LAMBDA after_then :
        IF conditional.otherwise.k = "None"
        THEN StmtOut(Dummy, t.block.statements, after_then)
        ELSE IF conditional.otherwise.k # "Block"
        THEN StmtOut(Dummy, t.block.statements, panicked(after_then, "unreachable"))
        ELSE Let(reconstruct_block(
                     conditional.otherwise,
                     condition_stack_push(after_then, negated_condition(conditional.condition))), LAMBDA e :
                 StmtOut(Dummy, t.block.statements \o e.block.statements, condition_stack_pop(e.fs)))))

reconstruct_definition(definition, fs) == StmtOut(Dummy, <<>>, panicked(fs, "unreachable"))

\* column i of the finalizes matrix takes argument i under the guard
reconstruct_finalize(input, fs) ==
    LET guard == construct_guard(fs)
        n == Len(fs.finalizes)
        pushed == <<>> \o [i \in 1..n |->
                     IF i <= Len(input.arguments)
                     THEN Append(fs.finalizes[i], [guard |-> guard, expr |-> input.arguments[i]])
                     ELSE fs.finalizes[i]]
    IN IF Len(input.arguments) > n
       THEN StmtOut(Dummy, <<>>, panicked([fs EXCEPT !.finalizes = pushed], "unwrap"))
       ELSE StmtOut(Dummy, <<>>, [fs EXCEPT !.finalizes = pushed])

reconstruct_iteration(input, fs) == StmtOut(Dummy, <<>>, panicked(fs, "unreachable"))

\* the entry without its guard
collected_return_unguarded(input, fs) ==
    IF input.expression.k = "Identifier" /\ contains_key(fs.tuples, input.expression.name)
    THEN [guard |-> NoExpr, expr |-> Tuple(fs.tuples[input.expression.name])]
    ELSE [guard |-> NoExpr, expr |-> input.expression]

\* the entry reconstruct_return adds to self.returns
collected_return(input, fs) ==
    LET guard == construct_guard(fs)
    IN IF input.expression.k = "Identifier" /\ contains_key(fs.tuples, input.expression.name)
       THEN [guard |-> guard, expr |-> Tuple(fs.tuples[input.expression.name])]
       ELSE [guard |-> guard, expr |-> input.expression]

reconstruct_return_kept(input, fs) ==
    StmtOut(input, <<>>, [fs EXCEPT !.returns = Append(fs.returns, collected_return(input, fs))])

reconstruct_return(input, fs) ==
    StmtOut(Dummy, <<>>, [fs EXCEPT !.returns = Append(fs.returns, collected_return(input, fs))])

\* StatementReconstructor::reconstruct_statement: the dispatch on the variant
reconstruct_statement(input, fs) ==
    CASE input.k = "Assign" -> reconstruct_assign(input, fs)
      [] input.k = "Block" ->
            Let(reconstruct_block(input, fs), LAMBDA r : StmtOut(r.block, <<>>, r.fs))
      [] input.k = "Conditional" -> reconstruct_conditional(input, fs)
      [] input.k = "Definition" -> reconstruct_definition(input, fs)
      [] input.k = "Finalize" -> reconstruct_finalize(input, fs)
      [] input.k = "Iteration" -> reconstruct_iteration(input, fs)
      [] input.k = "Return" -> reconstruct_return(input, fs)
      [] OTHER -> StmtOut(input, <<>>, fs)

\* Flattener::clear_early_returns: the collected returns, and the list emptied
clear_early_returns(fs) == [returns |-> fs.returns, fs |-> [fs EXCEPT !.returns = <<>>]]

\* the right-to-left fold of (guard, expr) entries: `g_i ? e_i : acc`, from the last
RECURSIVE fold_guards(_, _)
fold_guards(entries, i) ==
    IF i >= Len(entries) THEN entries[Len(entries)].expr
    ELSE Ternary(entries[i].guard, entries[i].expr, fold_guards(entries, i + 1))

\* the name the folded return value is bound to
ret == <<"ret">>

\* the finalize statement folded from the columns of the finalizes matrix
fold_finalizes(finalizes) ==
    Finalize(<<>> \o [i \in 1..Len(finalizes) |->
                        IF finalizes[i] = <<>> THEN ErrExpr ELSE fold_guards(finalizes[i], 1)])

\* Flattener::fold_returns: `ret = <folded>; return ret;` is appended when returns
\* were collected, then the one finalize statement when finalize arguments were
fold_returns(block, returns, fs) ==
    LET with_return ==
            IF returns = <<>> THEN block.statements
            ELSE block.statements \o
                 <<Assign(Identifier(ret), fold_guards(returns, 1)), Return(Identifier(ret))>>
        collected == \E i \in 1..Len(fs.finalizes) : fs.finalizes[i] # <<>>
        with_finalize ==
            IF collected THEN Append(with_return, fold_finalizes(fs.finalizes)) ELSE with_return
    IN [block |-> Block(with_finalize),
        fs |-> [fs EXCEPT !.finalizes = <<>> \o [i \in 1..Len(fs.finalizes) |-> <<>>]]]

\* self.structs as reconstruct_function initialises it from the inputs
RECURSIVE input_structs(_, _, _)
input_structs(input, i, structs) ==
    IF i > Len(input) THEN structs
    ELSE IF input[i].type_.k = "Identifier"
    THEN input_structs(input, i + 1,
                       map_insert(structs, input[i].identifier.name,
                                  lookup_struct(input[i].type_.name).identifier))
    ELSE input_structs(input, i + 1, structs)

\* a finalize block or a function body: structs from the inputs, the block
\* flattened, the returns folded
\* (`entry` and `returns` keep the Flattener as the block was entered and the
\* returns as they were taken from it)
flatten_body(input, block, fs) ==
    Let([fs EXCEPT !.structs = input_structs(input, 1, <<>>)], LAMBDA entry :
    Let(reconstruct_block(block, entry), LAMBDA b :
    Let(clear_early_returns(b.fs), LAMBDA c :
    Let(fold_returns(b.block, c.returns, c.fs), LAMBDA folded :
        [block |-> folded.block, fs |-> folded.fs, entry |-> entry, returns |-> c.returns]))))

reconstruct_function(function, fs) ==
    Let(IF function.finalize.k = "None" THEN [block |-> NoStatement, fs |-> fs]
        ELSE flatten_body(function.finalize.input, function.finalize.block, fs), LAMBDA fin :
    Let(IF function.finalize.k = "None" THEN NoStatement
        ELSE FinalizeBlock(function.finalize.input, fin.block), LAMBDA finalize :
    Let(flatten_body(function.input, function.block, fin.fs), LAMBDA body :
        [function |-> Function(function.input, body.block, finalize), fs |-> body.fs,
         entry |-> body.entry, returns |-> body.returns])))

\* one empty column of the finalizes matrix per input of the finalize block
initialize_finalizes(function, fs) ==
    [fs EXCEPT !.finalizes =
        IF function.finalize.k = "None" THEN <<>>
        ELSE <<>> \o [i \in 1..Len(function.finalize.input) |-> <<>>]]

InitFlattener ==
    /\ flattener = Flattener_new
    /\ last_function = NoFunction
    /\ flattened = NoFunction
    /\ functions_done = 0
    /\ body_entry = Flattener_new
    /\ body_returns = <<>>

(***************************************************************************)
(* The type checker as a state machine.                                    *)
(***************************************************************************)
\* TypeChecker::new
NewChecker ==
    /\ visits > 0
    /\ negate' = FALSE
    /\ handler' = <<>>
    /\ checker_panic' = "none"
    /\ visits' = 0
    /\ lastExpr' = NoExpr
    /\ lastExpected' = NoType
    /\ lastOut' = NoOutput
    /\ lastErrs' = <<>>
    /\ UNCHANGED <<psVars, rsVars, flVars, eqVars, dfVars>>

\* one top-level visit_expression(input, expected) on the checker, whose
\* thread has not panicked
VisitTop(input, expected) ==
    /\ visits < MaxVisits
    /\ checker_panic = "none"
    /\ \E r \in {visit_expression(input, expected, CheckerState(negate, handler))} :
          /\ negate' = r.st.negate
          /\ handler' = r.st.errs
          /\ checker_panic' = r.st.panic
          /\ lastOut' = r.out
          /\ lastErrs' = SubSeq(r.st.errs, Len(handler) + 1, Len(r.st.errs))
    /\ visits' = visits + 1
    /\ lastExpr' = input
    /\ lastExpected' = expected
    /\ UNCHANGED <<psVars, rsVars, flVars, eqVars, dfVars>>

InitChecker ==
    /\ negate = FALSE
    /\ handler = <<>>
    /\ checker_panic = "none"
    /\ visits = 0
    /\ lastExpr = NoExpr
    /\ lastExpected = NoType
    /\ lastOut = NoOutput
    /\ lastErrs = <<>>

\* a new type checker, a parser that has parsed nothing, a resolver over the
\* null resolver, a new flattener, no records compared, a new Definer
Init == InitChecker /\ InitParser /\ InitResolver /\ InitFlattener /\ InitCircuits /\ InitDefiner

(***************************************************************************)
(* Integer literals at the edges of each type's range, under stacked       *)
(* negations: the inputs of the literal checks.                            *)
(***************************************************************************)
RECURSIVE Inc(_)
\* the numeral of n + 1
Inc(s) ==
    IF s = <<>> THEN <<"1">>
    ELSE LET last == s[Len(s)]
             front == SubSeq(s, 1, Len(s) - 1)
         IN IF last = "9" THEN Inc(front) \o <<"0">>
            ELSE front \o <<Digits[DigitVal(last) + 2]>>

\* 0, 1, max, max + 1, max written with a leading zero and, for a signed
\* type, |min| + 1
IntSamples(ty) ==
    {<<"0">>, <<"1">>, IntMax(ty), Inc(IntMax(ty)), <<"0">> \o IntMax(ty)}
    \cup (IF IsSignedInt(ty) THEN {Inc(IntAbsMin(ty))} ELSE {})

RECURSIVE NegN(_, _)
\* e under n stacked unary negations
NegN(n, e) == IF n = 0 THEN e ELSE Unary("Negate", NegN(n - 1, e))

LiteralExprs ==
    {NegN(n, Literal("Integer", ty, str)) :
        n \in 0..MaxNeg, ty \in Range(INT_TYPES), str \in UNION {IntSamples(t) : t \in Range(INT_TYPES)}}

RECURSIVE NegDepth(_)
NegDepth(e) == IF e.k = "Unary" /\ e.op = "Negate" THEN 1 + NegDepth(e.receiver) ELSE 0

RECURSIVE NegOperand(_)
NegOperand(e) == IF e.k = "Unary" /\ e.op = "Negate" THEN NegOperand(e.receiver) ELSE e

\* the literal suite: a literal of a type among that type's samples
LiteralSuite ==
    {e \in LiteralExprs : NegOperand(e).s \in IntSamples(NegOperand(e).ty)}

NextLiteral ==
    \/ NewChecker
    \/ \E e \in LiteralSuite : \E x \in {NoType, NegOperand(e).ty, "field"} : VisitTop(e, x)

SpecLiteral == Init /\ [][NextLiteral]_vars

(***************************************************************************)
(* Binary operators over operands of every primitive type: the inputs of   *)
(* the checks of Pow, Mul and the logical operators.                       *)
(***************************************************************************)
\* a literal of the primitive type
LiteralOf(ty) ==
    CASE ty \in Range(INT_TYPES) -> Literal("Integer", ty, <<"1">>)
      [] ty = "address" -> Literal("Address", ty, <<"a", "l", "e", "o", "1">>)
      [] ty = "boolean" -> Literal("Boolean", ty, <<"t", "r", "u", "e">>)
      [] ty = "field" -> Literal("Field", ty, <<"1">>)
      [] ty = "group" -> Literal("Group", ty, <<"1">>)
      [] ty = "scalar" -> Literal("Scalar", ty, <<"1">>)
      [] ty = "string" -> Literal("String", ty, <<"s">>)

\* `base ** exponent` over every pair of primitive types
PowSuite == {Binary("Pow", LiteralOf(a), LiteralOf(b)) : a \in PRIMITIVE_TYPES, b \in PRIMITIVE_TYPES}

\* the group variable g multiplied, on either side, by a literal of every type
MulSuite ==
    {Binary("Mul", Identifier("g"), LiteralOf(t)) : t \in PRIMITIVE_TYPES}
    \cup {Binary("Mul", LiteralOf(t), Identifier("g")) : t \in PRIMITIVE_TYPES}

LogicalOperations == {"And", "Or", "Nand", "Nor"}

LogicalOperandTypes == {"boolean", "u8", "field", "address"}

LogicalSuite ==
    {Binary(op, LiteralOf(a), LiteralOf(b)) :
        op \in LogicalOperations, a \in LogicalOperandTypes, b \in LogicalOperandTypes}

NextBinary ==
    \/ NewChecker
    \/ \E e \in PowSuite : VisitTop(e, NoType)
    \/ \E e \in MulSuite : \E x \in {NoType, "group"} : VisitTop(e, x)
    \/ \E e \in LogicalSuite : \E x \in {NoType, "boolean", "u8"} : VisitTop(e, x)

SpecBinary == Init /\ [][NextBinary]_vars

(***************************************************************************)
(* Ternaries, calls, record initializers, member accesses and negations    *)
(* over the symbol table of the checked program.                           *)
(***************************************************************************)
MaxArguments == 3   \* arguments supplied to a call

\* the arms of the ternaries
ArmTypes == {"u8", "i8", "boolean", "field", "group", "address"}

TernarySuite ==
    {Ternary(Identifier("flag"), LiteralOf(a), LiteralOf(b)) : a \in ArmTypes, b \in ArmTypes}

\* an argument of type u8, one of type boolean, and a variable that is not declared
ArgumentPool == {LiteralOf("u8"), LiteralOf("boolean"), Identifier("nope")}

ArgumentLists == UNION {[1..m -> ArgumentPool] : m \in 0..MaxArguments}

\* calls of the functions f(a: u8, b: boolean) and nullary()
CallSuite == {Call(Identifier(name), arguments) : name \in {"f", "nullary"}, arguments \in ArgumentLists}

\* callees that are not the name of a function: a variable, an undeclared
\* name, a literal, a sum, a ternary, a member access
Callees ==
    {Identifier("n"), Identifier("nope"), LiteralOf("u8"),
     Binary("Add", LiteralOf("u8"), LiteralOf("u8")),
     Ternary(Identifier("flag"), LiteralOf("u8"), LiteralOf("u8")),
     MemberAccess(Identifier("foo"), "x")}

CalleeSuite == {Call(callee, arguments) : callee \in Callees, arguments \in {<<>>, <<LiteralOf("u8")>>}}

\* the ways to initialize a member: left out, by an expression, by shorthand
Initializers(name) ==
    {<<>>, <<StructVariableInitializer(name, LiteralOf("u8"))>>,
     <<StructVariableInitializer(name, LiteralOf("boolean"))>>,
     <<StructVariableInitializer(name, NoExpr)>>}

\* initializers of Foo { x: u8, y: boolean }, of which the variable y is
\* declared and the variable x is not, with or without a member z
CircuitInitSuite ==
    {Struct(name, x \o y \o z) :
        name \in {"Foo", "Nope"}, x \in Initializers("x"), y \in Initializers("y"),
        z \in {<<>>, <<StructVariableInitializer("z", LiteralOf("u8"))>>}}

\* a record value of Foo
FooValue ==
    Struct("Foo", <<StructVariableInitializer("x", LiteralOf("u8")),
                    StructVariableInitializer("y", LiteralOf("boolean"))>>)

\* the bases of the member accesses: a variable of a record type, a record
\* value, a variable of type u8, a variable of a type that names no record,
\* an undeclared variable, a literal
AccessBases ==
    {Identifier("foo"), FooValue, Identifier("n"), Identifier("ghost"), Identifier("nope"),
     LiteralOf("u8")}

MemberNames == {"x", "y", "zz"}

\* member accesses, alone and followed by another expression to check
AccessSuite ==
    {MemberAccess(base, name) : base \in AccessBases, name \in MemberNames}
    \cup {Binary("Eq", MemberAccess(base, name), Identifier("nope")) :
            base \in {Identifier("foo"), FooValue}, name \in MemberNames}

\* the operands of the negations: a literal of every primitive type, a
\* variable of a record type, an undeclared variable, a call, a ternary
NegateOperands ==
    {LiteralOf(t) : t \in PRIMITIVE_TYPES}
    \cup {Identifier("foo"), Identifier("nope"), Identifier("g"), Identifier("s"),
          Call(Identifier("nullary"), <<>>),
          Ternary(Identifier("flag"), LiteralOf("u8"), LiteralOf("u8"))}

NegateSuite == {Unary("Negate", operand) : operand \in NegateOperands}

NextCheck ==
    \/ NewChecker
    \/ \E e \in TernarySuite : \E x \in {NoType, "u8"} : VisitTop(e, x)
    \/ \E e \in CallSuite : \E x \in {NoType, "u8"} : VisitTop(e, x)
    \/ \E e \in CalleeSuite : \E x \in {NoType, "u8"} : VisitTop(e, x)
    \/ \E e \in CircuitInitSuite : \E x \in {NoType, "Foo"} : VisitTop(e, x)
    \/ \E e \in AccessSuite : VisitTop(e, NoType)
    \/ \E e \in NegateSuite : \E x \in {NoType, "field"} : VisitTop(e, x)

SpecCheck == Init /\ [][NextCheck]_vars

(***************************************************************************)
(* Negations around and inside other expressions: a literal or a variable  *)
(* under stacked negations, inside an addition, a ternary, a call or an    *)
(* absolute value, itself under stacked negations.                         *)
(***************************************************************************)
Wrappers == {"none", "add", "ternary", "call", "abs"}

\* `e`, `m + e`, `flag ? e : m`, `h(e)`, `e.abs()`
Wrapped(wrapper, e) ==
    CASE wrapper = "none" -> e
      [] wrapper = "add" -> Binary("Add", Identifier("m"), e)
      [] wrapper = "ternary" -> Ternary(Identifier("flag"), e, Identifier("m"))
      [] wrapper = "call" -> Call(Identifier("h"), <<e>>)
      [] wrapper = "abs" -> Unary("Abs", e)

\* the innermost operands: the literals 127i8, 128i8, 129i8, a literal of
\* u8, one of field, a variable, a member access that the checker gives up on
NestedOperands ==
    {Literal("Integer", "i8", str) :
        str \in {IntMax("i8"), Inc(IntMax("i8")), Inc(IntAbsMin("i8"))}}
    \cup {Literal("Integer", "u8", <<"1">>), LiteralOf("field"), Identifier("m"),
          MemberAccess(Identifier("foo"), "zz")}

\* at most MaxNeg negations in all, outside and inside the wrapper
NestedSuite ==
    {NegN(ab[1], Wrapped(w, NegN(ab[2], e))) :
        ab \in {p \in (0..MaxNeg) \X (0..MaxNeg) : p[1] + p[2] <= MaxNeg},
        w \in Wrappers, e \in NestedOperands}

NextNegate ==
    \/ NewChecker
    \/ \E e \in NestedSuite : \E x \in {NoType, "i8"} : VisitTop(e, x)

SpecNegate == Init /\ [][NextNegate]_vars

(***************************************************************************)
(* Parsing followed by type checking: the texts are a literal under unary  *)
(* minus signs, with or without parentheses around the operand, and a few  *)
(* texts around the literal grammar.                                       *)
(***************************************************************************)
\* the width of a token's text
TokenWidth(token, value) ==
    CASE token \in {"Int", "Ident", "AddressLit", "StaticString"} -> Len(value)
      [] token \in {"I8", "U8"} -> 2
      [] token \in {"I16", "I32", "I64", "U16", "U32", "U64"} -> 3
      [] token \in {"I128", "U128"} -> 4
      [] token \in {"Field", "Group"} -> 5
      [] token = "Scalar" -> 6
      [] OTHER -> 1

\* the tokens of a text: each item is [token, value, space], `space` the
\* number of blanks before the token
RECURSIVE Lex(_, _)
Lex(items, lo) ==
    IF items = <<>> THEN <<>>
    ELSE LET it == Head(items)
             start == lo + it.space
             end == start + TokenWidth(it.token, it.value)
         IN <<Tok(it.token, it.value, start, end)>> \o Lex(Tail(items), end)

Item(token) == [token |-> token, value |-> <<>>, space |-> 0]

IntItem(value) == [token |-> "Int", value |-> value, space |-> 0]

\* the suffix token of an integer type
SuffixToken(ty) ==
    CHOOSE t \in Range(INT_TYPE_TOKENS) : token_to_int_type(t) = ty

Minuses(n) == [i \in 1..n |-> Item("Minus")]

\* `-..-magT` and `-..-(-..-magT)`
NegatedLiteralText(outer, paren, inner_, ty, mag) ==
    Lex(Minuses(outer)
          \o (IF paren THEN <<Item("LeftParen")>> \o Minuses(inner_) ELSE <<>>)
          \o <<IntItem(mag), Item(SuffixToken(ty))>>
          \o (IF paren THEN <<Item("RightParen")>> ELSE <<>>), 0)

ParseTypes == <<"i8", "i32", "u8">>

NegatedLiteralTexts ==
    {NegatedLiteralText(a, FALSE, 0, ty, mag) :
        a \in 0..MaxNeg, ty \in Range(ParseTypes), mag \in UNION {IntSamples(t) : t \in Range(ParseTypes)}}
    \cup
    {NegatedLiteralText(ab[1], TRUE, ab[2], ty, mag) :
        ab \in (0..MaxNeg) \X (0..MaxNeg), ty \in Range(ParseTypes),
        mag \in UNION {IntSamples(t) : t \in Range(ParseTypes)}}

\* `128`, `128 i8`, `(128i8`, `()`, `(1i8,)`, `(1, -2)group`, `true`, `7field`,
\* `5`, `5 u8`, `7 field`, `7  scalar`, `3group`, `3scalar`
OtherTexts ==
    {Lex(<<IntItem(<<"5">>)>>, 0),
     Lex(<<IntItem(<<"5">>), [Item("U8") EXCEPT !.space = 1]>>, 0),
     Lex(<<IntItem(<<"7">>), [Item("Field") EXCEPT !.space = 1]>>, 0),
     Lex(<<IntItem(<<"7">>), [Item("Scalar") EXCEPT !.space = 2]>>, 0),
     Lex(<<IntItem(<<"3">>), Item("Group")>>, 0),
     Lex(<<IntItem(<<"3">>), Item("Scalar")>>, 0),
     Lex(<<IntItem(<<"1", "2", "8">>)>>, 0),
     Lex(<<IntItem(<<"1", "2", "8">>), [Item("I8") EXCEPT !.space = 1]>>, 0),
     Lex(<<Item("LeftParen"), IntItem(<<"1", "2", "8">>), Item("I8")>>, 0),
     Lex(<<Item("LeftParen"), Item("RightParen")>>, 0),
     Lex(<<Item("LeftParen"), IntItem(<<"1">>), Item("I8"), Item("Comma"), Item("RightParen")>>, 0),
     Lex(<<Item("LeftParen"), IntItem(<<"1">>), Item("Comma"), Item("Minus"), IntItem(<<"2">>),
           Item("RightParen"), Item("Group")>>, 0),
     Lex(<<Item("True")>>, 0),
     Lex(<<IntItem(<<"7">>), Item("Field")>>, 0)}

Texts ==
    {t \in NegatedLiteralTexts :
        \E i \in 1..Len(t) : t[i].token = "Int" /\ t[i].value \in IntSamples(token_to_int_type(t[i + 1].token))}
    \cup OtherTexts

\* leo_parser: parse_expression on the tokens of a text
ParseSource(tokens) ==
    /\ source = <<>>
    /\ source' = tokens
    /\ parsed' = parse_by("parse_expression", NewContext(tokens))
    /\ UNCHANGED <<tcVars, rsVars, flVars, eqVars, dfVars>>

\* the type checker visits the expression the parser returned
CheckParsed ==
    /\ parsed.ok
    /\ \E x \in {NoType, "i8", "field"} : VisitTop(parsed.expr, x)

NextParse ==
    \/ \E t \in Texts : ParseSource(t)
    \/ CheckParsed
    \/ NewChecker

SpecParse == Init /\ [][NextParse]_vars

(***************************************************************************)
(* The chained core-first resolver as a state machine.                     *)
(***************************************************************************)
MaxSegments == 3   \* segments of a package path

\* the segments a path is made of: `unstable.blake2s` and `core.unstable.blake2s`
\* are also tried as one segment
SegmentTexts ==
    {<<"core">>, <<"unstable">>, <<"blake2s">>, <<"nonexistent">>, <<"lib">>,
     <<"unstable", ".", "blake2s">>, <<"core", ".", "unstable", ".", "blake2s">>}

PackagePaths == UNION {[1..n -> SegmentTexts] : n \in 0..MaxSegments}

\* CoreImportResolver::new(inner)
NewCoreImportResolver(inner_) ==
    /\ inner_resolver # inner_
    /\ inner_resolver' = inner_
    /\ last_segments' = <<>>
    /\ resolved' = FALSE
    /\ resolution' = OkNone
    /\ inner_called' = NoCall
    /\ UNCHANGED <<tcVars, psVars, flVars, eqVars, dfVars>>

\* CoreImportResolver::resolve_package(package_segments, span)
ResolvePackage(segments) ==
    /\ last_segments' = segments
    /\ resolved' = TRUE
    /\ resolution' = core_resolve_package(inner_resolver, segments)
    /\ inner_called' = inner_call(segments)
    /\ UNCHANGED <<inner_resolver, tcVars, psVars, flVars, eqVars, dfVars>>

NextResolve ==
    \/ \E i \in {NullImportResolver, MockedImportResolver} : NewCoreImportResolver(i)
    \/ \E segments \in PackagePaths : ResolvePackage(segments)

SpecResolve == Init /\ [][NextResolve]_vars

(***************************************************************************)
(* The flattening pass as a state machine: one Flattener flattens up to    *)
(* MaxFunctions functions, keeping its maps and its Definer between them.  *)
(* The functions are SSA-form bodies over the inputs c1, c2 (bool), x, y   *)
(* (u8) and s, t (Foo), m, n (Bar).                                        *)
(***************************************************************************)
MaxFunctions == 2   \* functions flattened by one Flattener

Id(name) == Identifier(<<name>>)

U8(digit) == Literal("Integer", "u8", <<digit>>)

\* the variable assigned on the branch path (<<"t", "e">>: else-block of the then-block)
Var(path) == Identifier(<<"v">> \o path)

ScalarInput ==
    << FunctionInput(Id("c1"), TypePrimitive("bool")), FunctionInput(Id("c2"), TypePrimitive("bool")),
       FunctionInput(Id("x"), TypePrimitive("u8")), FunctionInput(Id("y"), TypePrimitive("u8")) >>

\* straight-line blocks that end in a return, and that do not
Returning(path, rets, value) ==
    {<<Return(e)>> : e \in rets} \cup {<<Assign(Var(path), value), Return(Var(path))>>}

Falling(path, value) == {<<>>, <<Assign(Var(path), value)>>}

\* blocks `if c { then } [else { else }] rest` in which every path returns and no
\* statement follows a return
Branches(c, thenR, thenF, elseR, elseF, rest) ==
    {<<Conditional(c, Block(t), Block(e))>> : t \in thenR, e \in elseR}
    \cup {<<Conditional(c, Block(t), Block(e))>> \o r : t \in thenR \cup thenF, e \in elseF, r \in rest}
    \cup {<<Conditional(c, Block(t), Block(e))>> \o r : t \in thenF, e \in elseR, r \in rest}
    \cup {<<Conditional(c, Block(t), NoStatement)>> \o r : t \in thenR \cup thenF, r \in rest}

OneLevel ==
    Branches(Id("c1"),
             Returning(<<"t">>, {U8("1"), Id("x")}, U8("1")), Falling(<<"t">>, U8("2")),
             Returning(<<"e">>, {U8("3"), Id("y")}, Id("y")), Falling(<<"e">>, Id("x")),
             Returning(<<>>, {U8("2"), Id("x")}, U8("2")))

Inner(path) ==
    Branches(Id("c2"),
             {<<Return(U8("4"))>>}, Falling(path \o <<"t">>, U8("4")),
             {<<Return(Id("y"))>>}, Falling(path \o <<"e">>, Id("y")),
             {<<Return(U8("5"))>>})

TwoLevels ==
    Branches(Id("c1"), Inner(<<"t">>), {}, {<<Return(U8("2"))>>}, {<<>>}, {<<Return(Id("x"))>>})
    \cup Branches(Id("c1"), {<<Return(U8("1"))>>}, {<<>>}, Inner(<<"e">>), {}, {<<Return(Id("x"))>>})

\* a variable assigned on both branches and merged by a ternary after them
Merged ==
    {<<Conditional(Id("c1"), Block(<<Assign(Var(<<"t">>), a)>>), Block(<<Assign(Var(<<"e">>), b)>>)),
       Assign(Var(<<>>), Ternary(Id("c1"), Var(<<"t">>), Var(<<"e">>))),
       Return(Var(<<>>))>> : a \in {U8("1"), Id("x")}, b \in {U8("2"), Id("y")}}
    \cup {<<Assign(Var(<<>>), Ternary(Id("c2"), Id("x"), U8("1"))),
            Conditional(Id("c1"), Block(<<Return(Var(<<>>))>>), NoStatement),
            Return(Id("y"))>>}

ScalarBodies ==
    Returning(<<>>, {U8("1"), Id("x")}, Id("y")) \cup OneLevel \cup TwoLevels \cup Merged

ScalarFunctions == {Function(ScalarInput, Block(b), NoStatement) : b \in ScalarBodies}

\* functions with a finalize block of two inputs
FinalizeInput ==
    <<FunctionInput(Id("fc"), TypePrimitive("bool")), FunctionInput(Id("p"), TypePrimitive("u8"))>>

FinalizeBlocks ==
    { FinalizeBlock(FinalizeInput, Block(<<Assign(Id("q"), Id("p"))>>)),
      FinalizeBlock(FinalizeInput,
                    Block(<<Conditional(Id("fc"), Block(<<Return(Id("p"))>>), NoStatement),
                            Return(U8("0"))>>)) }

FinalizeBodies ==
    { <<Finalize(<<Id("c1"), Id("x")>>)>>,
      <<Finalize(<<Id("c1"), Id("x")>>), Return(Id("y"))>>,
      <<Conditional(Id("c1"),
                    Block(<<Finalize(<<Id("c2"), Id("x")>>), Return(U8("1"))>>),
                    Block(<<Finalize(<<Id("c1"), Id("y")>>), Return(U8("2"))>>))>>,
      <<Conditional(Id("c1"),
                    Block(<<Finalize(<<Id("c2"), U8("1")>>), Return(U8("1"))>>),
                    NoStatement),
        Finalize(<<Id("c1"), Id("y")>>),
        Return(Id("x"))>>,
      <<Conditional(Id("c1"),
                    Block(<<Conditional(Id("c2"),
                                        Block(<<Finalize(<<Id("c2"), U8("1")>>), Return(U8("4"))>>),
                                        NoStatement),
                            Finalize(<<Id("c1"), U8("2")>>),
                            Return(U8("5"))>>),
                    NoStatement),
        Finalize(<<Id("c1"), Id("y")>>),
        Return(Id("x"))>> }

FinalizeFunctions ==
    {Function(ScalarInput, Block(b), f) : b \in FinalizeBodies, f \in FinalizeBlocks}

\* functions over the records Foo and Bar
StructInput ==
    << FunctionInput(Id("c1"), TypePrimitive("bool")), FunctionInput(Id("x"), TypePrimitive("u8")),
       FunctionInput(Id("s"), TypeIdentifier("Foo")), FunctionInput(Id("t"), TypeIdentifier("Foo")),
       FunctionInput(Id("m"), TypeIdentifier("Bar")), FunctionInput(Id("n"), TypeIdentifier("Bar")) >>

Foo(x_, y_) ==
    Struct("Foo", <<StructVariableInitializer("x", x_), StructVariableInitializer("y", y_)>>)

StructBodies ==
    { <<Assign(Id("o"), Ternary(Id("c1"), Id("s"), Id("t"))), Return(Id("o"))>>,
      <<Assign(Id("o"), Ternary(Id("c1"), Id("m"), Id("n"))), Return(Id("o"))>>,
      <<Assign(Id("f"), Foo(U8("1"), U8("2"))), Assign(Id("g"), Foo(U8("3"), U8("4"))),
        Assign(Id("o"), Ternary(Id("c1"), Id("f"), Id("g"))), Return(Id("o"))>>,
      <<Assign(Id("f"), Id("s")), Assign(Id("o"), Ternary(Id("c1"), Id("f"), Id("t"))),
        Assign(Id("h"), Ternary(Id("c1"), Id("o"), Id("s"))), Return(Id("h"))>>,
      <<Assign(Id("g"), Call(Id("mk"), <<Id("x")>>)),
        Assign(Id("o"), Ternary(Id("c1"), Id("s"), Id("g"))), Return(Id("o"))>>,
      <<Assign(Id("g"), Call(Id("mk"), <<Id("x")>>)),
        Assign(Id("o"), Ternary(Id("c1"), Id("g"), Id("t"))), Return(Id("o"))>>,
      <<Assign(Id("z"), MemberAccess(Id("s"), "x")),
        Assign(Id("w"), Ternary(Id("c1"), Id("z"), Id("x"))), Return(Id("w"))>>,
      <<Conditional(Id("c1"),
                    Block(<<Assign(Id("o"), Ternary(Id("c1"), Id("s"), Id("t"))), Return(Id("o"))>>),
                    NoStatement),
        Return(Id("s"))>> }

\* a function over records whose finalize block takes a record and assigns a tuple
RecordFinalizeInput ==
    <<FunctionInput(Id("fc"), TypePrimitive("bool")), FunctionInput(Id("p"), TypePrimitive("u8")),
      FunctionInput(Id("fr"), TypeIdentifier("Foo"))>>

RecordFinalizeFunction ==
    Function(StructInput,
             Block(<<Finalize(<<Id("c1"), Id("x"), Id("s")>>), Return(Id("x"))>>),
             FinalizeBlock(RecordFinalizeInput,
                           Block(<<Assign(Id("w"), Tuple(<<Id("p"), Id("p")>>)),
                                   Assign(Id("q"), Id("p"))>>)))

StructFunctions ==
    {Function(StructInput, Block(b), NoStatement) : b \in StructBodies} \cup {RecordFinalizeFunction}

\* functions over tuples
TupleBodies ==
    { <<Assign(Id("r"), Ternary(Id("c1"), Tuple(<<Id("x"), Id("y")>>), Tuple(<<Id("y"), U8("1")>>))),
        Return(Id("r"))>>,
      <<Assign(Id("a"), Tuple(<<Id("x"), Id("y")>>)), Assign(Id("b"), Tuple(<<Id("y"), U8("1")>>)),
        Assign(Id("r"), Ternary(Id("c1"), Id("a"), Id("b"))), Return(Id("r"))>>,
      <<Assign(Id("a"), Tuple(<<Id("x"), Id("y"), U8("2")>>)), Assign(Id("b"), Id("a")),
        Assign(Id("d"), Tuple(<<U8("1"), U8("2"), U8("3")>>)),
        Assign(Id("r"), Ternary(Id("c2"), Id("b"), Id("d"))), Return(Id("r"))>>,
      <<Assign(Id("a"), Tuple(<<Id("x"), Id("y")>>)), Return(Id("a"))>>,
      <<Assign(Id("a"), Tuple(<<Id("x"), Id("y")>>)), Assign(Id("b"), Id("a")), Return(Id("b"))>>,
      <<Assign(Id("a"), Tuple(<<Id("x"), Id("y")>>)), Assign(Id("z"), TupleAccess(Id("a"), 1)),
        Return(Id("z"))>>,
      <<Assign(Id("a"), Tuple(<<Id("x"), Id("y")>>)), Assign(Id("b"), Id("a")),
        Assign(Id("r"), Ternary(Id("c1"), TupleAccess(Id("b"), 0), TupleAccess(Id("a"), 1))),
        Return(Id("r"))>>,
      <<Conditional(Id("c1"),
                    Block(<<Assign(Id("a"), Tuple(<<Id("x"), U8("1")>>)), Return(Id("a"))>>),
                    Block(<<Conditional(Id("c2"),
                                        Block(<<Assign(Id("b"), Tuple(<<Id("y"), U8("2")>>)),
                                                Assign(Id("d"), Id("b")), Return(Id("d"))>>),
                                        NoStatement),
                            Assign(Id("e"), Tuple(<<Id("x"), Id("y")>>)), Return(Id("e"))>>))>>,
      <<Assign(Id("a"), Tuple(<<Id("x"), Id("y")>>)), Assign(Id("b"), Tuple(<<Id("y"), Id("x")>>)),
        Conditional(Id("c1"), Block(<<Return(Id("a"))>>), NoStatement),
        Return(Id("b"))>> }

TupleFunctions == {Function(ScalarInput, Block(b), NoStatement) : b \in TupleBodies}

Functions == ScalarFunctions \cup FinalizeFunctions \cup StructFunctions \cup TupleFunctions

\* Flattener::new for the next program
NewFlattener ==
    /\ functions_done > 0
    /\ flattener' = Flattener_new
    /\ last_function' = NoFunction
    /\ flattened' = NoFunction
    /\ functions_done' = 0
    /\ body_entry' = Flattener_new
    /\ body_returns' = <<>>
    /\ UNCHANGED <<tcVars, psVars, rsVars, eqVars, dfVars>>

\* reconstruct_function(function) on the Flattener, the finalizes matrix sized
\* for the function's finalize block
FlattenFunction(f) ==
    /\ functions_done < MaxFunctions
    /\ \E r \in {reconstruct_function(f, initialize_finalizes(f, flattener))} :
          /\ flattener' = r.fs
          /\ flattened' = r.function
          /\ body_entry' = r.entry
          /\ body_returns' = r.returns
    /\ last_function' = f
    /\ functions_done' = functions_done + 1
    /\ UNCHANGED <<tcVars, psVars, rsVars, eqVars, dfVars>>

NextFlatten ==
    \/ NewFlattener
    \/ \E f \in Functions : FlattenFunction(f)

SpecFlatten == Init /\ [][NextFlatten]_vars

(***************************************************************************)
(* Record declarations compared: the inputs of Circuit's PartialEq.        *)
(***************************************************************************)
CircuitNames == {"Foo", "Bar", "Baz"}

CircuitMemberLists == {<<>>, <<"x">>, <<"x", "y">>, <<"y", "x">>}

\* where a definition starts in its file
CircuitSpans == {0, 40}

Circuits == {Circuit(n, m, sp) : n \in CircuitNames, m \in CircuitMemberLists, sp \in CircuitSpans}

\* `first == second` on two Circuit values
CompareCircuits(first, second) ==
    /\ comparison' = [made |-> TRUE, first |-> first, second |-> second,
                      equal |-> circuit_eq(first, second)]
    /\ UNCHANGED <<tcVars, psVars, rsVars, flVars, dfVars>>

NextCircuits == \E first \in Circuits, second \in Circuits : CompareCircuits(first, second)

SpecCircuits == Init /\ [][NextCircuits]_vars

(***************************************************************************)
(* Calls of unique_symbol on one Definer.                                  *)
(***************************************************************************)
MaxCalls == 11   \* calls of unique_symbol on one Definer

\* the (base, separator) pairs of the calls: the pair of the flattener's
\* kind, a base that ends in a digit, an empty separator
DefinerArguments == {<<<<"x">>, <<"$">>>>, <<<<"x">>, <<>>>>, <<<<"x", "1">>, <<>>>>}

\* Definer::unique_symbol(arg, separator)
UniqueSymbol(arg, separator) ==
    /\ definer.counter < MaxCalls
    /\ \E u \in {unique_symbol(arg, separator, definer.counter)} :
          definer' = [counter |-> u.counter,
                      calls |-> Append(definer.calls,
                                       [arg |-> arg, separator |-> separator, symbol |-> u.symbol])]
    /\ UNCHANGED <<tcVars, psVars, rsVars, flVars, eqVars>>

NextDefiner == \E a \in DefinerArguments : UniqueSymbol(a[1], a[2])

SpecDefiner == Init /\ [][NextDefiner]_vars

(***************************************************************************)
(* The ranges of the integer types, computed from their bit widths: what   *)
(* the literal claims are checked against.                                 *)
(***************************************************************************)
\* the numeral of 2 * s: doubling a digit d carries 1 exactly when d >= 5
Double(s) ==
    LET carryInto(i) == IF i < Len(s) /\ DigitVal(s[i + 1]) >= 5 THEN 1 ELSE 0
        body == [i \in 1..Len(s) |-> Digits[((2 * DigitVal(s[i]) + carryInto(i)) % 10) + 1]]
    IN (IF DigitVal(s[1]) >= 5 THEN <<"1">> ELSE <<>>) \o body

RECURSIVE Times2N(_, _)
\* the numeral of s * 2^n
Times2N(s, n) == IF n = 0 THEN s ELSE Double(Times2N(s, n - 1))

P7 == Times2N(<<"1">>, 7)
P8 == Double(P7)
P15 == Times2N(P8, 7)
P16 == Double(P15)
P24 == Times2N(P16, 8)
P31 == Times2N(P24, 7)
P32 == Double(P31)
P40 == Times2N(P32, 8)
P48 == Times2N(P40, 8)
P56 == Times2N(P48, 8)
P63 == Times2N(P56, 7)
P64 == Double(P63)
P72 == Times2N(P64, 8)
P80 == Times2N(P72, 8)
P88 == Times2N(P80, 8)
P96 == Times2N(P88, 8)
P104 == Times2N(P96, 8)
P112 == Times2N(P104, 8)
P120 == Times2N(P112, 8)
P127 == Times2N(P120, 7)
P128 == Double(P127)

RECURSIVE Dec(_)
\* the numeral of n - 1, for n > 0
Dec(s) ==
    LET last == s[Len(s)]
        front == SubSeq(s, 1, Len(s) - 1)
    IN IF last = "0" THEN Dec(front) \o <<"9">>
       ELSE StripZeros(front \o <<Digits[DigitVal(last)]>>)

\* max(T): 2^(w-1) - 1 for a signed type of width w, 2^w - 1 for an unsigned one
TrueMax ==
    [ty \in Range(INT_TYPES) |->
        Dec(CASE ty = "i8" -> P7 [] ty = "i16" -> P15 [] ty = "i32" -> P31
              [] ty = "i64" -> P63 [] ty = "i128" -> P127
              [] ty = "u8" -> P8 [] ty = "u16" -> P16 [] ty = "u32" -> P32
              [] ty = "u64" -> P64 [] ty = "u128" -> P128)]

\* |min(T)|: 2^(w-1) for a signed type, 0 for an unsigned one
TrueAbsMin ==
    [ty \in Range(INT_TYPES) |->
        CASE ty = "i8" -> P7 [] ty = "i16" -> P15 [] ty = "i32" -> P31
          [] ty = "i64" -> P63 [] ty = "i128" -> P127
          [] OTHER -> <<"0">>]

\* whether the value (-1)^[minus] * mag lies in T's range
InRangeOf(ty, minus, mag) ==
    IF minus /\ mag # <<"0">> THEN DecLeq(mag, TrueAbsMin[ty]) ELSE DecLeq(mag, TrueMax[ty])

\* Value::T(v) for v = (-1)^[minus] * mag
ValueOf(ty, minus, mag) == [ty |-> ty, neg |-> minus /\ mag # <<"0">>, mag |-> mag]

HasInvalidIntValue(errs) == \E i \in 1..Len(errs) : errs[i].kind = "invalid_int_value"

IsNegatedLiteral(e) == NegOperand(e).k = "Literal" /\ NegOperand(e).variant = "Integer"

Odd(n) == n % 2 = 1

i8_128 == Literal("Integer", "i8", <<"1", "2", "8">>)

\* C1: a signed literal of magnitude m under n stacked negations is
\* range-checked as (-1)^n * m.  In range it is annotated with that value and,
\* when the hint is absent or the literal's own type, checks without any
\* diagnostic; out of range it emits exactly invalid_int_value(text, T) with
\* the text that was parsed ("-" before the digits iff n is odd).  So -128i8
\* is accepted with the value -128 and -(-128i8) emits
\* invalid_int_value("128", "i8").
C1_NegateFolding ==
    (visits > 0 /\ IsNegatedLiteral(lastExpr) /\ IsSignedInt(NegOperand(lastExpr).ty)) =>
        LET lit == NegOperand(lastExpr)
            minus == Odd(NegDepth(lastExpr))
            mag == StripZeros(lit.s)
            hinted == lastExpected \in {NoType, lit.ty}
        IN /\ InRangeOf(lit.ty, minus, mag) =>
                /\ ~HasInvalidIntValue(lastErrs)
                /\ lastOut = ValueOutput(ValueOf(lit.ty, minus, mag))
                /\ hinted => lastErrs = <<>>
           /\ ~InRangeOf(lit.ty, minus, mag) =>
                /\ SelectSeq(lastErrs, LAMBDA d : d.kind = "invalid_int_value")
                     = <<invalid_int_value(IF minus THEN <<"-">> \o lit.s ELSE lit.s, lit.ty)>>
                /\ lastOut.val = NoValue
           /\ (lastExpr = NegN(1, i8_128) /\ hinted) =>
                /\ lastErrs = <<>>
                /\ lastOut.val = [ty |-> "i8", neg |-> TRUE, mag |-> <<"1", "2", "8">>]
           /\ lastExpr = NegN(2, i8_128) =>
                \E i \in 1..Len(lastErrs) :
                    lastErrs[i] = invalid_int_value(<<"1", "2", "8">>, "i8")

\* C1 witness: -128i8 was checked and accepted, and -(-128i8) is the next case
C1_Witness ==
    /\ visits > 0
    /\ lastExpr = NegN(1, i8_128)
    /\ lastExpected = NoType
    /\ lastErrs = <<>>
    /\ lastOut.val.neg

\* the text `-(mT)`: one minus sign before the parenthesized literal
IsNegatedParenthesized(text, ty, mag) == text = NegatedLiteralText(1, TRUE, 0, ty, mag)

\* the text was parsed and the expression it gave was type-checked
ParsedAndChecked == visits > 0 /\ parsed.ok /\ lastExpr = parsed.expr

\* C2: the parenthesized form -(128i8) does not type-check: parsing and then
\* checking the negate of the parenthesized literal |min(T)| of a signed type T
\* emits invalid_int_value, while the unparenthesized -128i8 is accepted with
\* the value -128.
C2_ParenthesizedOverflows ==
    ParsedAndChecked =>
        \A ty \in Range(ParseTypes) :
            IsSignedInt(ty) =>
                /\ IsNegatedParenthesized(source, ty, TrueAbsMin[ty]) =>
                        HasInvalidIntValue(lastErrs)
                /\ source = NegatedLiteralText(1, FALSE, 0, ty, TrueAbsMin[ty]) =>
                        /\ ~HasInvalidIntValue(lastErrs)
                        /\ lastOut = ValueOutput(ValueOf(ty, TRUE, TrueAbsMin[ty]))

\* the literal `vT` of the value v = (-1)^[minus] * mag: a unary negate when v
\* is negative
IsWrittenValue(e) ==
    /\ IsNegatedLiteral(e)
    /\ NegDepth(e) <= 1
    /\ NegDepth(e) = 1 => StripZeros(NegOperand(e).s) # <<"0">>

\* v = max(T) + 1 or v = min(T) - 1
JustOutside(ty, minus, mag) ==
    IF minus THEN mag = Inc(TrueAbsMin[ty]) ELSE mag = Inc(TrueMax[ty])

\* C3 as stated: for every integer type, signed or unsigned, a value in range
\* checks without invalid_int_value and yields Value::T(v), and max(T) + 1 and
\* min(T) - 1 emit invalid_int_value, yield no value and return the type T.
C3_RoundTripAllTypes ==
    (visits > 0 /\ IsWrittenValue(lastExpr)) =>
        LET lit == NegOperand(lastExpr)
            minus == NegDepth(lastExpr) = 1
            mag == StripZeros(lit.s)
        IN /\ InRangeOf(lit.ty, minus, mag) =>
                /\ ~HasInvalidIntValue(lastErrs)
                /\ lastOut = ValueOutput(ValueOf(lit.ty, minus, mag))
           /\ JustOutside(lit.ty, minus, mag) =>
                /\ HasInvalidIntValue(lastErrs)
                /\ lastOut.val = NoValue
                /\ lastOut.ty = lit.ty

\* C3 amended: the same for every value written without a negate and for every
\* negative value of a signed type; for an unsigned type, -1 (written -1T)
\* emits type_is_not_negatable and no invalid_int_value, and the literal is
\* annotated with Value::T(1).
C3_RoundTrip ==
    (visits > 0 /\ IsWrittenValue(lastExpr)) =>
        LET lit == NegOperand(lastExpr)
            minus == NegDepth(lastExpr) = 1
            mag == StripZeros(lit.s)
        IN IF minus /\ ~IsSignedInt(lit.ty)
           THEN JustOutside(lit.ty, minus, mag) =>
                    /\ ~HasInvalidIntValue(lastErrs)
                    /\ \E i \in 1..Len(lastErrs) : lastErrs[i] = type_is_not_negatable(lit.ty)
                    /\ lastOut = ValueOutput(ValueOf(lit.ty, FALSE, mag))
           ELSE /\ InRangeOf(lit.ty, minus, mag) =>
                    /\ ~HasInvalidIntValue(lastErrs)
                    /\ lastOut = ValueOutput(ValueOf(lit.ty, minus, mag))
                /\ JustOutside(lit.ty, minus, mag) =>
                    /\ HasInvalidIntValue(lastErrs)
                    /\ lastOut.val = NoValue
                    /\ lastOut.ty = lit.ty

\* C3 witness: u128's max + 1 was rejected and returned the bare type
C3_Witness ==
    /\ visits > 0
    /\ lastExpr = Literal("Integer", "u128", Inc(TrueMax["u128"]))
    /\ HasInvalidIntValue(lastErrs)
    /\ lastOut = [ty |-> "u128", val |-> NoValue]

\* the segments ["core", "unstable", "blake2s"]
CoreBlake2sPath == << <<"core">>, <<"unstable">>, <<"blake2s">> >>

\* the dotted path of the segments after "core", as one text
DottedAfterCore(segments) ==
    LET rest == SubSeq(segments, 2, Len(segments))
    IN [i \in 1..Len(rest) |-> IF i = 1 THEN rest[i] ELSE <<".">> \o rest[i]]

RECURSIVE Flatten(_)
Flatten(texts) == IF texts = <<>> THEN <<>> ELSE Head(texts) \o Flatten(Tail(texts))

\* the member hash(seed: [u8; 32], message: [u8; 32]) -> [u8; 32]
IsHashMember(member) ==
    /\ member.kind = "function"
    /\ member.name = "hash"
    /\ Len(member.input) = 2
    /\ member.input[1] = [name |-> "seed", type_ |-> "[u8; 32]"]
    /\ member.input[2] = [name |-> "message", type_ |-> "[u8; 32]"]
    /\ member.output = "[u8; 32]"

\* C10: core resolution.  Resolving ["core", "unstable", "blake2s"] through
\* the chained core-first resolver, whatever its inner resolver, returns
\* Ok(Some(program)) whose only record has the single member
\* hash(seed: [u8; 32], message: [u8; 32]) -> [u8; 32] and the core-mapping
\* tag "blake2s"; every other path under "core" whose dotted rest is not
\* `unstable.blake2s` returns Ok(None).
C10_CoreResolution ==
    (resolved /\ last_segments # <<>> /\ last_segments[1] = <<"core">>) =>
        IF Flatten(DottedAfterCore(last_segments)) = <<"unstable", ".", "blake2s">>
        THEN /\ resolution.ok /\ resolution.some
             /\ Len(resolution.program.circuits) = 1
             /\ Len(resolution.program.circuits[1].members) = 1
             /\ IsHashMember(resolution.program.circuits[1].members[1])
             /\ resolution.program.circuits[1].core_mapping = "blake2s"
        ELSE resolution.ok /\ ~resolution.some

\* C10 witness: ["core", "unstable", "blake2s"] was resolved over a mocked
\* inner resolver that holds a package of that very path
C10_Witness ==
    /\ resolved
    /\ inner_resolver = MockedImportResolver
    /\ last_segments = CoreBlake2sPath
    /\ resolution.some

\* the dotted path of all the segments, as one text
Dotted(segments) ==
    Flatten([i \in 1..Len(segments) |-> IF i = 1 THEN segments[i] ELSE <<".">> \o segments[i]])

\* what the inner resolver holds for the segments
InnerAnswer(inner_, segments) ==
    IF inner_.kind = "Mocked" /\ Dotted(segments) \in DOMAIN inner_.packages
    THEN OkSome(inner_.packages[Dotted(segments)])
    ELSE OkNone

\* C11: chained core-first resolution.  When the segment list is non-empty
\* and its first segment is "core", the result is resolve_core_module of the
\* remaining segments joined by "." and no call is made on the inner
\* resolver (also when the registry has no match, as for the bare ["core"]);
\* otherwise, the empty list included, the inner resolver is called with the
\* same segments and the result is what it returns.
C11_ChainedResolution ==
    resolved =>
        IF last_segments # <<>> /\ last_segments[1] = <<"core">>
        THEN /\ inner_called = NoCall
             /\ resolution = resolve_core_module(Flatten(DottedAfterCore(last_segments)))
        ELSE /\ inner_called = [made |-> TRUE, segments |-> last_segments]
             /\ resolution = InnerAnswer(inner_resolver, last_segments)

\* C11 witness: the one segment `core.unstable.blake2s` is not "core", so the
\* mocked inner resolver was called and its package was returned
C11_Witness ==
    /\ resolved
    /\ inner_resolver = MockedImportResolver
    /\ last_segments = << <<"core", ".", "unstable", ".", "blake2s">> >>
    /\ inner_called.made
    /\ resolution = OkSome(MockedProgram("Shadow"))

(***************************************************************************)
(* Reference evaluation of a function body: statements are run in order,   *)
(* a conditional runs the block its condition selects, a return ends the   *)
(* run with its value.  The same evaluator runs the source body and the    *)
(* flattened one.                                                          *)
(***************************************************************************)
RECURSIVE Eval(_, _)
Eval(e, env) ==
    CASE e.k = "Identifier" -> env[e.name]
      [] e.k = "Literal" -> e.s
      [] e.k = "Unary" -> ~Eval(e.receiver, env)
      [] e.k = "Binary" -> Eval(e.left, env) /\ Eval(e.right, env)
      [] e.k = "Ternary" ->
            IF Eval(e.condition, env) THEN Eval(e.if_true, env) ELSE Eval(e.if_false, env)

Bind(env, name, value) == [n \in (DOMAIN env) \cup {name} |-> IF n = name THEN value ELSE env[n]]

NotReturned(env) == [returned |-> FALSE, value |-> <<>>, env |-> env]

RECURSIVE Run(_, _, _)
Run(statements, i, env) ==
    IF i > Len(statements) THEN NotReturned(env)
    ELSE LET st == statements[i]
         IN CASE st.k = "Assign" ->
                    Run(statements, i + 1, Bind(env, st.place.name, Eval(st.value, env)))
              [] st.k = "Return" ->
                    [returned |-> TRUE, value |-> Eval(st.expression, env), env |-> env]
              [] st.k = "Conditional" ->
                    LET b == IF Eval(st.condition, env) THEN st.then ELSE st.otherwise
                        r == IF b.k = "Block" THEN Run(b.statements, 1, env) ELSE NotReturned(env)
                    IN IF r.returned THEN r ELSE Run(statements, i + 1, r.env)
              [] OTHER -> Run(statements, i + 1, env)

Outcome(statements, env) ==
    LET r == Run(statements, 1, env) IN <<r.returned, r.value>>

Valuation(b1, b2, vx, vy) ==
    [n \in {<<"c1">>, <<"c2">>, <<"x">>, <<"y">>} |->
        IF n = <<"c1">> THEN b1 ELSE IF n = <<"c2">> THEN b2 ELSE IF n = <<"x">> THEN vx ELSE vy]

Valuations ==
    {Valuation(b1, b2, vx, vy) :
        b1 \in BOOLEAN, b2 \in BOOLEAN, vx \in {<<"7">>, <<"8">>}, vy \in {<<"8">>, <<"9">>}}

Flattened == last_function.k = "Function"

Body == last_function.block.statements

Out == flattened.block.statements

KindCount(statements, kind) == Cardinality({i \in 1..Len(statements) : statements[i].k = kind})

\* the post-condition on one flattened statement list; return_last: the return is
\* the very last statement, otherwise it may be followed by the trailing finalize
PostCondition(statements, return_last) ==
    LET n == Len(statements)
    IN /\ \A i \in 1..n : statements[i].k \notin {"Conditional", "Iteration", "Definition"}
       /\ \A i \in 1..n : statements[i].k = "Finalize" => i = n
       /\ KindCount(statements, "Return") <= 1
       /\ \A i \in 1..n : statements[i].k = "Return" =>
              \/ i = n
              \/ ~return_last /\ i = n - 1 /\ statements[n].k = "Finalize"

PostConditions(return_last) ==
    Flattened =>
        /\ PostCondition(Out, return_last)
        /\ flattened.finalize.k # "None" =>
               PostCondition(flattened.finalize.block.statements, return_last)

\* C4 (as amended): after reconstruct_function the statement list of the body (and
\* of the finalize block) holds no Conditional, Iteration or Definition, no Finalize
\* but one trailing synthetic one, and at most one Return, which is the last
\* statement or is followed only by that trailing Finalize.
C4_PostCondition == PostConditions(FALSE)

\* C4 (as stated): the same, with the one Return the last statement of the body.
C4_ReturnIsLast == PostConditions(TRUE)

\* C4 witness: a body with nested conditionals, returns and finalize statements was
\* flattened to a list that ends `return ret; finalize(..);`
C4_Witness ==
    /\ Flattened
    /\ \E i \in 1..Len(Body) :
          /\ Body[i].k = "Conditional"
          /\ \E j \in 1..Len(Body[i].then.statements) : Body[i].then.statements[j].k = "Conditional"
    /\ \E i \in 1..Len(Body) : Body[i].k = "Finalize"
    /\ Len(Out) >= 2
    /\ Out[Len(Out)].k = "Finalize"
    /\ Out[Len(Out) - 1].k = "Return"

\* C5: for every SSA body of assignments, nested if/else and early returns and every
\* valuation of the inputs, the flattened body returns the value the source body returns.
C5_SemanticsPreserved ==
    (Flattened /\ last_function \in ScalarFunctions) =>
        \A env \in Valuations :
            /\ Outcome(Body, env)[1]
            /\ Outcome(Out, env) = Outcome(Body, env)

\* C5 witness: a body with a conditional nested in a conditional was flattened, and
\* under some valuation both bodies return the 4u8 of the inner early return
C5_Witness ==
    /\ Flattened
    /\ last_function \in ScalarFunctions
    /\ Body[1].k = "Conditional"
    /\ Body[1].then.statements # <<>>
    /\ Body[1].then.statements[1].k = "Conditional"
    /\ KindCount(Out, "Conditional") = 0
    /\ \E env \in Valuations :
          /\ Outcome(Body, env) = <<TRUE, <<"4">>>>
          /\ Outcome(Out, env) = <<TRUE, <<"4">>>>

\* the returns of a body in source order, each under the conjunction of the
\* conditions around it (negated for an else-block)
RECURSIVE AndAll(_, _)
AndAll(conditions, n) ==
    IF n = 1 THEN conditions[1] ELSE Binary("And", AndAll(conditions, n - 1), conditions[n])

GuardOf(conditions) == IF conditions = <<>> THEN NoExpr ELSE AndAll(conditions, Len(conditions))

RECURSIVE CollectedReturns(_, _, _)
CollectedReturns(statements, i, conditions) ==
    IF i > Len(statements) THEN <<>>
    ELSE LET st == statements[i]
             here ==
               CASE st.k = "Return" -> <<[guard |-> GuardOf(conditions), expr |-> st.expression]>>
                 [] st.k = "Conditional" ->
                       CollectedReturns(st.then.statements, 1, Append(conditions, st.condition))
                       \o (IF st.otherwise.k = "Block"
                           THEN CollectedReturns(st.otherwise.statements, 1,
                                                 Append(conditions, Unary("Not", st.condition)))
                           ELSE <<>>)
                 [] OTHER -> <<>>
         IN here \o CollectedReturns(statements, i + 1, conditions)

RECURSIVE AllStatements(_)
\* the statements of a list and of the blocks of its conditionals, at any depth
AllStatements(statements) ==
    UNION {{statements[i]} \cup
           (IF statements[i].k # "Conditional" THEN {}
            ELSE AllStatements(statements[i].then.statements) \cup
                 (IF statements[i].otherwise.k = "Block"
                  THEN AllStatements(statements[i].otherwise.statements) ELSE {}))
           : i \in 1..Len(statements)}

RECURSIVE AliasedTuple(_, _)
\* the tuple expression a name stands for in the body: the tuple the body
\* assigns it, directly or through up to depth alias assignments, else the
\* tuple the Flattener held for the name when the body was entered; NoExpr for
\* any other name
AliasedTuple(name, depth) ==
    LET defs == {a \in AllStatements(Body) : a.k = "Assign" /\ a.place.name = name}
        held == IF contains_key(body_entry.tuples, name)
                THEN Tuple(body_entry.tuples[name]) ELSE NoExpr
    IN IF defs = {} \/ depth = 0 THEN held
       ELSE Let(CHOOSE d \in defs : TRUE, LAMBDA a :
            Let(CASE a.value.k = "Tuple" -> a.value
                  [] a.value.k = "Identifier" -> AliasedTuple(a.value.name, depth - 1)
                  [] OTHER -> NoExpr, LAMBDA assigned :
                IF assigned # NoExpr THEN assigned ELSE held))

\* the returned expression as it is recorded: the whole tuple for a name
\* aliased to one
Recorded(expression) ==
    IF expression.k = "Identifier" /\ AliasedTuple(expression.name, Len(Body) + 2) # NoExpr
    THEN AliasedTuple(expression.name, Len(Body) + 2)
    ELSE expression

\* the entries expected for the body, in source order
ExpectedReturns ==
    LET entries == CollectedReturns(Body, 1, <<>>)
    IN [i \in 1..Len(entries) |->
           [guard |-> entries[i].guard, expr |-> Recorded(entries[i].expr)]]

\* g1 ? e1 : (g2 ? e2 : ... en)
RECURSIVE Nested(_, _)
Nested(entries, i) ==
    IF i = Len(entries) THEN entries[i].expr
    ELSE Ternary(entries[i].guard, entries[i].expr, Nested(entries, i + 1))

\* the last two statements of a list, before its trailing finalize if it has one
ReturnTail(statements) ==
    LET n == IF statements # <<>> /\ statements[Len(statements)].k = "Finalize"
             THEN Len(statements) - 1 ELSE Len(statements)
    IN IF n < 2 THEN <<>> ELSE SubSeq(statements, n - 1, n)

FoldedTail(entries) ==
    <<Assign(Id("ret"), Nested(entries, 1)), Return(Id("ret"))>>

E4Body == <<Conditional(Id("c1"), Block(<<Return(U8("1"))>>), NoStatement), Return(U8("2"))>>

Defining(statements, j, name) ==
    IF \E i \in 1..(j - 1) : statements[i].k = "Assign" /\ statements[i].place.name = name
    THEN statements[CHOOSE i \in 1..(j - 1) :
                        statements[i].k = "Assign" /\ statements[i].place.name = name].value
    ELSE NoExpr

\* the elements of the tuple an expression stands for at statement j: a tuple
\* expression, or an identifier assigned a tuple or an alias of one (<<>>: none)
RECURSIVE TupleOf(_, _, _)
TupleOf(statements, j, e) ==
    CASE e.k = "Tuple" -> e.elements
      [] e.k = "Identifier" -> TupleOf(statements, j, Defining(statements, j, e.name))
      [] OTHER -> <<>>

\* the record an identifier is known to have at statement j: from the type of an
\* input, a record init, an alias or a ternary over two such ("": none)
InputRecord(name) ==
    IF \E i \in 1..Len(last_function.input) :
           /\ last_function.input[i].identifier.name = name
           /\ last_function.input[i].type_.k = "Identifier"
    THEN last_function.input[CHOOSE i \in 1..Len(last_function.input) :
                                 last_function.input[i].identifier.name = name].type_.name
    ELSE ""

RECURSIVE RecordOf(_, _, _)
RecordOf(statements, j, e) ==
    CASE e.k = "Struct" -> e.name
      [] e.k = "Identifier" ->
            IF InputRecord(e.name) # "" THEN InputRecord(e.name)
            ELSE RecordOf(statements, j, Defining(statements, j, e.name))
      [] e.k = "Ternary" ->
            IF e.if_true.k = "Identifier" /\ e.if_false.k = "Identifier"
               /\ RecordOf(statements, j, e.if_true) = RecordOf(statements, j, e.if_false)
            THEN RecordOf(statements, j, e.if_true) ELSE ""
      [] OTHER -> ""

\* a name made by the Definer
IsFresh(name) == \E i \in 1..Len(name) : name[i] = "$"

IsTernaryAssign(st) == st.k = "Assign" /\ st.value.k = "Ternary"

HasTupleArm(e) == e.k = "Ternary" /\ (e.if_true.k = "Tuple" \/ e.if_false.k = "Tuple")

\* at p: n fresh assignments `var_i = condition ? a_i : b_i`
ScalarTernariesAt(statements, p, condition, a, b) ==
    /\ p + Len(a) - 1 <= Len(statements)
    /\ \A i \in 1..Len(a) :
          /\ statements[p + i - 1].k = "Assign"
          /\ IsFresh(statements[p + i - 1].place.name)
          /\ statements[p + i - 1].value = Ternary(condition, a[i], b[i])

\* C7 (as stated): a ternary whose arms are tuples of length n, written as tuple
\* expressions or as identifiers aliased to tuples, is flattened into n scalar ternary
\* assignments `var_i = cond ? a_i : b_i`, and no ternary with a tuple arm is left in
\* the flattened statements.
C7_TupleTernary ==
    Flattened =>
        \A j \in 1..Len(Body) :
            LET a == IF IsTernaryAssign(Body[j]) THEN TupleOf(Body, j, Body[j].value.if_true) ELSE <<>>
                b == IF IsTernaryAssign(Body[j]) THEN TupleOf(Body, j, Body[j].value.if_false) ELSE <<>>
            IN (a # <<>> /\ Len(a) = Len(b)) =>
                  /\ \A i \in 1..Len(Out) : Out[i].k = "Assign" => ~HasTupleArm(Out[i].value)
                  /\ \E p \in 1..Len(Out) : ScalarTernariesAt(Out, p, Body[j].value.condition, a, b)

\* C9 (as stated): no assignment that survives flattening has a tuple expression, or
\* a ternary over tuple expressions, as its right-hand side (the binding of the
\* folded return value aside, which stands for the expression of the trailing return).
TupleFree(statements) ==
    \A i \in 1..Len(statements) :
        (statements[i].k = "Assign" /\ statements[i].place # Id("ret")) =>
            /\ statements[i].value.k # "Tuple"
            /\ ~HasTupleArm(statements[i].value)

C9_NoTupleMaterialized ==
    Flattened =>
        /\ TupleFree(Out)
        /\ flattened.finalize.k # "None" => TupleFree(flattened.finalize.block.statements)

\* the members of a declared record, in declaration order
MembersOf(record) ==
    StructDeclarations[CHOOSE i \in 1..Len(StructDeclarations) :
                          StructDeclarations[i].identifier = record].members

\* at p: k fresh assignments `tmp_i = condition ? a.m_i : b.m_i` in declaration order,
\* the fresh record init `tmp = Record { m_i: tmp_i }`, and `place = tmp`
LoweredAt(statements, p, st, record) ==
    LET members == MembersOf(record)
        k == Len(members)
    IN /\ p + k + 1 <= Len(statements)
       /\ \A i \in 1..k :
             /\ statements[p + i - 1].k = "Assign"
             /\ IsFresh(statements[p + i - 1].place.name)
             /\ statements[p + i - 1].value =
                   Ternary(st.value.condition, MemberAccess(st.value.if_true, members[i]),
                                               MemberAccess(st.value.if_false, members[i]))
       /\ \A i, l \in 1..k : i # l => statements[p + i - 1].place # statements[p + l - 1].place
       /\ statements[p + k].k = "Assign"
       /\ IsFresh(statements[p + k].place.name)
       /\ \A i \in 1..k : statements[p + k].place # statements[p + i - 1].place
       /\ statements[p + k].value =
             Struct(record, [i \in 1..k |->
                                StructVariableInitializer(members[i], statements[p + i - 1].place)])
       /\ statements[p + k + 1] = Assign(st.place, statements[p + k].place)

\* at p: the one fresh assignment `tmp = condition ? a : b`, and `place = tmp`
SingleTernaryAt(statements, p, st) ==
    /\ p + 1 <= Len(statements)
    /\ statements[p].k = "Assign"
    /\ IsFresh(statements[p].place.name)
    /\ statements[p].value = st.value
    /\ statements[p + 1] = Assign(st.place, statements[p].place)

IdentifierArms(st) ==
    IsTernaryAssign(st) /\ st.value.if_true.k = "Identifier" /\ st.value.if_false.k = "Identifier"

BothRecords(j) ==
    /\ RecordOf(Body, j, Body[j].value.if_true) # ""
    /\ RecordOf(Body, j, Body[j].value.if_false) # ""

\* C8: `place = cond ? a : b` with a and b both known in the structs map, of one
\* record of members m_1..m_k, is lowered to `tmp_i = cond ? a.m_i : b.m_i` for
\* i = 1..k in declaration order, `tmp = Record { m_i: tmp_i }` and `place = tmp`;
\* when an arm is not in the structs map (and the arms are no tuples) the ternary is
\* left whole in one fresh assignment.
C8_StructTernary ==
    Flattened =>
        \A j \in 1..Len(Body) :
            IdentifierArms(Body[j]) =>
                IF BothRecords(j)
                THEN \E p \in 1..Len(Out) :
                        LoweredAt(Out, p, Body[j], RecordOf(Body, j, Body[j].value.if_true))
                ELSE (TupleOf(Body, j, Body[j].value.if_true) = <<>>
                      \/ TupleOf(Body, j, Body[j].value.if_false) = <<>>) =>
                        \E p \in 1..Len(Out) : SingleTernaryAt(Out, p, Body[j])

\* C8 witness: a ternary over two Bar records (three members) was lowered to three
\* member ternaries and a record init
C8_Witness ==
    /\ Flattened
    /\ \E j \in 1..Len(Body) :
          /\ IdentifierArms(Body[j])
          /\ BothRecords(j)
          /\ RecordOf(Body, j, Body[j].value.if_true) = "Bar"
          /\ \E p \in 1..Len(Out) : Out[p].k = "Assign" /\ Out[p].value.k = "Struct"
                                     /\ Len(Out[p].value.members) = 3

(***************************************************************************)
(* Binary operators.                                                       *)
(***************************************************************************)
\* the type of an operand of the suites: a literal or a variable
OperandType(e) ==
    IF e.k = "Literal" THEN e.ty
    ELSE IF e.k = "Identifier" /\ e.name \in DOMAIN symbol_table.variables
    THEN symbol_table.variables[e.name].type_
    ELSE NoType

\* the last visit was of a binary expression of the operator
VisitedBinary(ops) == visits > 0 /\ lastExpr.k = "Binary" /\ lastExpr.op \in ops

HasError(errs, kind) == \E i \in 1..Len(errs) : errs[i].kind = kind

\* the operand pairs of `**` the operand rule accepts
PowAccepted(base, exponent) ==
    \/ base \in Range(FIELD_INT_TYPES) /\ exponent \in Range(MAGNITUDE_TYPES)
    \/ base = "field" /\ exponent \in Range(INT_TYPES)

\* C12: Pow operand rule.  `base ** exp` is accepted without diagnostic
\* exactly when base is field or an integer type and exp is u8, u16 or u32,
\* or base is field and exp is any integer type; every other pair of
\* primitive operand types emits a diagnostic.
C12_PowOperandRule ==
    (VisitedBinary({"Pow"}) /\ lastExpected = NoType) =>
        (lastErrs = <<>> <=> PowAccepted(OperandType(lastExpr.left), OperandType(lastExpr.right)))

\* the last visit multiplied a group operand by an operand of the type
MulGroupBy(other) ==
    /\ VisitedBinary({"Mul"})
    /\ lastExpected \in {NoType, "group"}
    /\ \/ OperandType(lastExpr.left) = "group" /\ OperandType(lastExpr.right) = other
       \/ OperandType(lastExpr.right) = "group" /\ OperandType(lastExpr.left) = other

C14_LogicalBoolean ==
    VisitedBinary(LogicalOperations) =>
        LET left == OperandType(lastExpr.left)
            right == OperandType(lastExpr.right)
        IN /\ (left # "boolean" \/ right # "boolean") => lastErrs # <<>>
           /\ (left = "boolean" /\ right = "boolean" /\ lastExpected \in {NoType, "boolean"})
                  => lastErrs = <<>>

(***************************************************************************)
(* Ternaries, calls, record initializers, member accesses, negations.      *)
(***************************************************************************)
\* how often the diagnostic was emitted by the last visit
Emitted(err) == Cardinality({i \in 1..Len(lastErrs) : lastErrs[i] = err})

VisitedKind(kind) == visits > 0 /\ lastExpr.k = kind

\* C15: ternary typing.  With a boolean condition, `cond ? a : b` is checked
\* without diagnostic if and only if typeof(a) = typeof(b), and the type
\* returned for the ternary is then that common type.  Stated for a ternary
\* visited without expected type, where the arms alone decide.
C15_TernaryTyping ==
    (VisitedKind("Ternary") /\ lastExpected = NoType) =>
        LET a == OperandType(lastExpr.if_true)
            b == OperandType(lastExpr.if_false)
        IN /\ lastErrs = <<>> <=> a = b
           /\ a = b => lastOut.ty = a

\* the last visit was of a call of a declared function
VisitedKnownCall ==
    /\ VisitedKind("Call")
    /\ lastExpr.function.k = "Identifier"
    /\ lastExpr.function.name \in DOMAIN symbol_table.functions

\* C16: call checking.  For a call of a known function with n declared
\* parameters and m supplied arguments, incorrect_num_args_to_call(n, m) is
\* emitted if and only if n # m, and every one of the m arguments is visited,
\* so that each undeclared variable among them, at whatever position, is
\* reported once.
C16_CallChecking ==
    VisitedKnownCall =>
        LET n == Len(symbol_table.functions[lastExpr.function.name].input)
            m == Len(lastExpr.arguments)
        IN /\ HasError(lastErrs, "incorrect_num_args_to_call") <=> n # m
           /\ n # m => Emitted(incorrect_num_args_to_call(n, m)) = 1
           /\ Emitted(unknown_sym("variable", "nope"))
                = Cardinality({i \in 1..m : lastExpr.arguments[i] = Identifier("nope")})

\* C17: a callee that is not the name of a function is rejected.  A callee
\* identifier bound to no function emits unknown_sym("function") and the call
\* returns no type; a callee that is no identifier at all emits a diagnostic
\* for the call as well.
C17_CalleeNotFunction ==
    (VisitedKind("Call") /\ ~VisitedKnownCall) =>
        IF lastExpr.function.k = "Identifier"
        THEN /\ Emitted(unknown_sym("function", lastExpr.function.name)) = 1
             /\ lastOut = NoOutput
        ELSE lastErrs # <<>>

\* the members of an initializer that initialize the name
Supplied(input, name) == {i \in 1..Len(input.members) : input.members[i].identifier = name}

\* C18: record init checking.  For an initializer of a known record,
\* incorrect_num_circuit_members is emitted iff the number of members supplied
\* is not the number declared; each declared member that is absent gets
\* exactly one unknown_sym("circuit member variable", name); each declared
\* member that is supplied is checked against its declared type, so that an
\* expression of another type emits type_should_be; an unknown record name
\* emits unknown_sym("circuit").
C18_RecordInitChecking ==
    VisitedKind("Struct") =>
        IF lastExpr.name \notin DOMAIN symbol_table.circuits
        THEN Emitted(unknown_sym("circuit", lastExpr.name)) = 1
        ELSE LET declared == symbol_table.circuits[lastExpr.name].members
             IN /\ HasError(lastErrs, "incorrect_num_circuit_members")
                       <=> Len(declared) # Len(lastExpr.members)
                /\ \A d \in 1..Len(declared) :
                      /\ Supplied(lastExpr, declared[d].name) = {}
                            => Emitted(unknown_sym("circuit member variable", declared[d].name)) = 1
                      /\ \A i \in Supplied(lastExpr, declared[d].name) :
                            (/\ lastExpr.members[i].expression.k = "Literal"
                             /\ lastExpr.members[i].expression.ty # declared[d].type_)
                                => Emitted(type_should_be(lastExpr.members[i].expression.ty,
                                                          declared[d].type_)) >= 1

\* the member access of the last visit: the visited expression, or the left
\* operand of the visited comparison
VisitedAccess ==
    /\ visits > 0
    /\ \/ lastExpr.k = "MemberAccess"
       \/ lastExpr.k = "Binary" /\ lastExpr.op = "Eq" /\ lastExpr.left.k = "MemberAccess"

LastAccess == IF lastExpr.k = "MemberAccess" THEN lastExpr ELSE lastExpr.left

\* the base is a variable of the record type Foo or a value of Foo
RecordBase(base) == base = Identifier("foo") \/ (base.k = "Struct" /\ base.name = "Foo")

\* C19: member access on an unknown member emits a diagnostic and does not
\* abort.  For `e.m` with e of a record type that has no member m the checker
\* emits unknown_sym and returns no type; for a base that is no record it
\* emits a diagnostic; it never panics and goes on to check the expressions
\* that follow.
C19_MemberAccessDiagnostic ==
    VisitedAccess =>
        /\ checker_panic = "none"
        /\ (RecordBase(LastAccess.inner) /\ LastAccess.name \notin {"x", "y"})
              => /\ HasError(lastErrs, "unknown_sym")
                 /\ lastExpr.k = "MemberAccess" => lastOut = NoOutput
        /\ ~RecordBase(LastAccess.inner) => lastErrs # <<>>
        /\ lastExpr.k = "Binary" => Emitted(unknown_sym("variable", "nope")) = 1

\* the type the checker infers for an operand of the suites
RECURSIVE InferredType(_)
InferredType(e) ==
    CASE e.k = "Literal" -> e.ty
      [] e.k = "Identifier" -> OperandType(e)
      [] e.k = "Call" -> symbol_table.functions[e.function.name].type_
      [] e.k = "Ternary" -> InferredType(e.if_true)

VisitedNegate == visits > 0 /\ lastExpr.k = "Unary" /\ lastExpr.op = "Negate"

\* C20: unary negate operand class.  Negating an operand of inferred type t
\* emits type_is_not_negatable if and only if t is not a signed integer
\* type, field or group (so for address, boolean, scalar, string, record
\* types and every unsigned integer type); nothing of the kind is emitted
\* when the operand has no inferred type; the negate returns the output of
\* its operand.
C20_NegateOperandClass ==
    VisitedNegate =>
        LET t == InferredType(lastExpr.receiver)
        IN /\ HasError(lastErrs, "type_is_not_negatable")
                 <=> (t # NoType /\ t \notin Range(SIGNED_INT_TYPES) \cup {"field", "group"})
           /\ HasError(lastErrs, "type_is_not_negatable") => Emitted(type_is_not_negatable(t)) = 1
           /\ lastOut = visit_expression(lastExpr.receiver, lastExpected,
                                         CheckerState(TRUE, <<>>)).out

\* C20 witness: the negation of the variable foo of the record type Foo was
\* checked and reported as not negatable
C20_Witness ==
    /\ VisitedNegate
    /\ lastExpr.receiver = Identifier("foo")
    /\ lastErrs = <<type_is_not_negatable("Foo")>>
    /\ lastOut.ty = "Foo"

(***************************************************************************)
(* Record equality.                                                        *)
(***************************************************************************)
\* C21: record equality is nominal.  Two Circuit values compare equal if and
\* only if their identifiers are equal, whatever their member lists and
\* spans; the relation is reflexive, symmetric and transitive over the
\* circuits of the suite; two circuits with the same member list and
\* different names are unequal.
C21_NominalEquality ==
    comparison.made =>
        LET a == comparison.first
            b == comparison.second
        IN /\ comparison.equal <=> a.identifier = b.identifier
           /\ circuit_eq(a, a)
           /\ circuit_eq(b, a) = comparison.equal
           /\ \A c \in Circuits : (comparison.equal /\ circuit_eq(b, c)) => circuit_eq(a, c)
           /\ (a.members = b.members /\ a.identifier # b.identifier) => ~comparison.equal

\* C21 witness: two declarations of Foo with different members and spans were
\* compared and found equal
C21_Witness ==
    /\ comparison.made
    /\ comparison.first = Circuit("Foo", <<"x">>, 0)
    /\ comparison.second = Circuit("Foo", <<"y", "x">>, 40)
    /\ comparison.equal

(***************************************************************************)
(* Fresh names.                                                            *)
(***************************************************************************)
\* C23: fresh names are globally unique.  On one Definer the k-th call of
\* unique_symbol(base, sep), k counted from 0, returns the text of base, sep
\* and k in a row and raises the counter by one, and no two calls, whatever
\* their bases and separators, return the same symbol.
C23_FreshNamesUnique ==
    /\ definer.counter = Len(definer.calls)
    /\ \A k \in 1..Len(definer.calls) :
          definer.calls[k].symbol
             = definer.calls[k].arg \o definer.calls[k].separator \o usize_to_string(k - 1)
    /\ \A i, j \in 1..Len(definer.calls) :
          i # j => definer.calls[i].symbol # definer.calls[j].symbol

(***************************************************************************)
(* Literals with and without a type suffix.                                *)
(***************************************************************************)
\* the text is one integer and nothing else
UntypedText(text) == Len(text) = 1 /\ text[1].token = "Int"

\* the text is one integer and a type suffix
SuffixedText(text) ==
    Len(text) = 2 /\ text[1].token = "Int" /\ text[2].token \in Range(INT_TYPE_TOKENS)

\* the typed literal of a value and a suffix token
TypedLiteral(value, suffix) ==
    CASE suffix = "Field" -> Literal("Field", "field", value)
      [] suffix = "Group" -> Literal("Group", "group", value)
      [] suffix = "Scalar" -> Literal("Scalar", "scalar", value)
      [] OTHER -> Literal("Integer", token_to_int_type(suffix), value)

\* C22: an integer literal with no type suffix is an untyped literal.  It is
\* not rejected by the parser, which knows no context: it is an expression
\* that is rejected with implicit_values_not_allowed only where the context
\* gives no expected type and takes the expected type where there is one.  A
\* literal immediately followed by a suffix parses as the typed literal of
\* that class; a suffix after whitespace is rejected with
\* unexpected_whitespace.
C22_UntypedLiteral ==
    source # <<>> =>
        /\ UntypedText(source) => parsed.ok
        /\ (UntypedText(source) /\ visits > 0 /\ lastExpr = parsed.expr /\ lastExpected # NoType)
              => (lastErrs = <<>> /\ lastOut.ty = lastExpected)
        /\ (SuffixedText(source) /\ source[1].hi = source[2].lo)
              => (parsed.ok /\ parsed.expr = TypedLiteral(source[1].value, source[2].token))
        /\ (SuffixedText(source) /\ source[1].hi # source[2].lo)
              => (~parsed.ok
                  /\ parsed.err = unexpected_whitespace(source[1].value,
                                                        token_to_string(source[2].token)))

(***************************************************************************)
(* The negate flag.                                                        *)
(***************************************************************************)
RECURSIVE SubExpressions(_)
\* an expression and every expression below it
SubExpressions(e) ==
    {e} \cup
    CASE e.k = "Unary" -> SubExpressions(e.receiver)
      [] e.k = "Binary" -> SubExpressions(e.left) \cup SubExpressions(e.right)
      [] e.k = "Ternary" -> SubExpressions(e.condition) \cup SubExpressions(e.if_true)
                              \cup SubExpressions(e.if_false)
      [] e.k = "Call" -> UNION {SubExpressions(e.arguments[i]) : i \in 1..Len(e.arguments)}
      [] e.k = "MemberAccess" -> SubExpressions(e.inner)
      [] e.k = "TupleAccess" -> SubExpressions(e.tuple)
      [] e.k = "Tuple" -> UNION {SubExpressions(e.elements[i]) : i \in 1..Len(e.elements)}
      [] e.k = "Struct" ->
            UNION {SubExpressions(e.members[i].expression) : i \in 1..Len(e.members)}
      [] OTHER -> {}

HasIntegerLiteral(e) ==
    \E sub \in SubExpressions(e) : sub.k = "Literal" /\ sub.variant = "Integer"

\* the visit of e by a checker without diagnostics whose flag is n
VisitWith(e, n) == visit_expression(e, lastExpected, CheckerState(n, <<>>))

\* C24: the negate flag as a state machine.  It is false in a new type
\* checker; a unary negate flips it for the visit of its operand only; when
\* the visit of any expression returns, whatever it emitted, the flag has the
\* value it had on entry, so that it is false between top-level visits; and
\* only integer literals read it: an expression without integer literal is
\* checked alike under both values.
C24_NegateFlagStateMachine ==
    /\ visits = 0 => negate = FALSE
    /\ checker_panic = "none" => negate = FALSE
    /\ visits > 0 =>
          \A e \in SubExpressions(lastExpr) : \A n \in BOOLEAN :
              /\ VisitWith(e, n).st.panic = "none" => VisitWith(e, n).st.negate = n
              /\ (e.k = "Unary" /\ e.op = "Negate")
                    => VisitWith(e, n).out = VisitWith(e.receiver, ~n).out
              /\ ~HasIntegerLiteral(e)
                    => /\ VisitWith(e, TRUE).out = VisitWith(e, FALSE).out
                       /\ VisitWith(e, TRUE).st.errs = VisitWith(e, FALSE).st.errs

\* C24 witness: `-(m + -(127i8))` was checked: two negates entered and left,
\* the flag false again
C24_Witness ==
    /\ visits > 0
    /\ lastExpr = NegN(1, Wrapped("add", NegN(1, Literal("Integer", "i8", <<"1", "2", "7">>))))
    /\ checker_panic = "none"
    /\ negate = FALSE
    /\ ~HasInvalidIntValue(lastErrs)

RECURSIVE InnermostOperand(_)
\* the operand at the end of the path through the receiver of a unary, the
\* right operand of a binary, the first arm of a ternary, the first argument
\* of a call
InnermostOperand(e) ==
    CASE e.k = "Unary" -> InnermostOperand(e.receiver)
      [] e.k = "Binary" -> InnermostOperand(e.right)
      [] e.k = "Ternary" -> InnermostOperand(e.if_true)
      [] e.k = "Call" /\ e.arguments # <<>> -> InnermostOperand(e.arguments[1])
      [] OTHER -> e

RECURSIVE NegationsAbove(_)
\* the number of unary negates on that path
NegationsAbove(e) ==
    CASE e.k = "Unary" -> (IF e.op = "Negate" THEN 1 ELSE 0) + NegationsAbove(e.receiver)
      [] e.k = "Binary" -> NegationsAbove(e.right)
      [] e.k = "Ternary" -> NegationsAbove(e.if_true)
      [] e.k = "Call" /\ e.arguments # <<>> -> NegationsAbove(e.arguments[1])
      [] OTHER -> 0

\* the last visit was of an expression with a signed literal at the end of
\* the path
VisitedNestedLiteral ==
    /\ visits > 0
    /\ InnermostOperand(lastExpr).k = "Literal"
    /\ InnermostOperand(lastExpr).variant = "Integer"
    /\ IsSignedInt(InnermostOperand(lastExpr).ty)

\* C30: the negate flag a signed integer literal sees is the parity of the
\* number of unary negates on the whole path from the visited root to the
\* literal, whatever binary, ternary, call or other unary nodes lie between:
\* under an odd number of negates the literal is range-checked with a
\* leading minus sign, under an even number without it.  So `-(m + 128i8)`
\* emits no invalid_int_value.
C30_NegateParity ==
    VisitedNestedLiteral =>
        LET lit == InnermostOperand(lastExpr)
            minus == Odd(NegationsAbove(lastExpr))
        IN /\ InRangeOf(lit.ty, minus, lit.s) => ~HasInvalidIntValue(lastErrs)
           /\ ~InRangeOf(lit.ty, minus, lit.s) =>
                SelectSeq(lastErrs, LAMBDA d : d.kind = "invalid_int_value")
                   = <<invalid_int_value(IF minus THEN <<"-">> \o lit.s ELSE lit.s, lit.ty)>>
           /\ lastExpr = NegN(1, Wrapped("add", i8_128)) => ~HasInvalidIntValue(lastErrs)

\* C30 witness: `-(m + 128i8)` was checked and 128i8 passed as -128
C30_Witness ==
    /\ visits > 0
    /\ lastExpr = Unary("Negate", Binary("Add", Identifier("m"), i8_128))
    /\ lastErrs = <<>>


(***************************************************************************)
(* Tuple accesses and erased tuple assignments.                            *)
(***************************************************************************)
\* the expressions a statement reads
Reads(statement) ==
    CASE statement.k = "Assign" -> SubExpressions(statement.value)
      [] statement.k = "Return" -> SubExpressions(statement.expression)
      [] statement.k = "Finalize" ->
            UNION {SubExpressions(statement.arguments[i]) : i \in 1..Len(statement.arguments)}
      [] OTHER -> {}

\* the names the body assigns that the Flattener recorded as tuples: their
\* assignments were erased to a dummy
ErasedNames ==
    {st.place.name : st \in {a \in AllStatements(Body) :
                                a.k = "Assign" /\ contains_key(flattener.tuples, a.place.name)}}

\* the source assignments `x = t.i` of a recorded tuple t
PlainAccesses ==
    {a \in AllStatements(Body) :
        /\ a.k = "Assign" /\ a.value.k = "TupleAccess" /\ a.value.tuple.k = "Identifier"
        /\ a.value.tuple.name \in ErasedNames}

\* C25: tuple access replacement.  After a function was flattened, no tuple
\* access on a recorded tuple is left in its body; a plain assignment `x = t.i`
\* has become `x = <i-th element recorded for t>`; after an alias assignment
\* `u = t` both names are recorded with the same tuple; and no statement of the
\* flattened body reads a name whose assignment was erased to a dummy.
C25_TupleAccessReplaced ==
    (Flattened /\ flattener.panic = "none") =>
        /\ \A i \in 1..Len(Out) : \A e \in Reads(Out[i]) :
               ~(e.k = "TupleAccess" /\ e.tuple.k = "Identifier" /\ e.tuple.name \in ErasedNames)
        /\ \A a \in PlainAccesses : \E i \in 1..Len(Out) :
               Out[i] = Assign(a.place, flattener.tuples[a.value.tuple.name][a.value.index + 1])
        /\ \A a \in AllStatements(Body) :
               (a.k = "Assign" /\ a.value.k = "Identifier" /\ a.value.name \in ErasedNames)
                   => /\ a.place.name \in ErasedNames
                      /\ flattener.tuples[a.place.name] = flattener.tuples[a.value.name]
        /\ \A i \in 1..Len(Out) : \A e \in Reads(Out[i]) :
               ~(e.k = "Identifier" /\ e.name \in ErasedNames)


(***************************************************************************)
(* The condition stack.                                                    *)
(***************************************************************************)
\* the conditionals of the body, at any depth
Conditionals == {st \in AllStatements(Body) : st.k = "Conditional"}

\* stacks a conditional can be met with: empty, one condition, a condition
\* and a negated one
EntryStacks == {<<>>, <<Id("c1")>>, <<Id("c2"), Unary("Not", Id("c1"))>>}

\* the Flattener the body was entered with, its condition stack set to stack
EnteredWith(stack) == [body_entry EXCEPT !.condition_stack = stack]

\* the Flattener before the i-th top-level statement of the body is flattened
\* (i = Len(Body) + 1: when the last one has been flattened)
BeforeStatement(i) == reconstruct_block_loop(SubSeq(Body, 1, i - 1), 1, <<>>, body_entry).fs

\* C26: condition stack balance.  For every conditional of a body, with or
\* without else branch, nested or not, and every stack it is entered with, the
\* condition stack when reconstruct_conditional returns is the stack it was
\* called with; the stack is empty before each top-level statement of the body
\* is flattened, when the last one has been flattened, and when
\* reconstruct_function returns.
C26_ConditionStackBalance ==
    Flattened =>
        /\ \A c \in Conditionals : \A stack \in EntryStacks :
               reconstruct_conditional(c, EnteredWith(stack)).fs.condition_stack = stack
        /\ \A i \in 1..(Len(Body) + 1) : BeforeStatement(i).condition_stack = <<>>
        /\ flattener.condition_stack = <<>>

\* C26 witness: a flattened body with a conditional without else branch and one
\* with an else branch that holds a further conditional
C26_Witness ==
    /\ Flattened
    /\ \E c \in Conditionals : c.otherwise.k # "Block"
    /\ \E c \in Conditionals :
          /\ c.otherwise.k = "Block"
          /\ \E i \in 1..Len(c.otherwise.statements) : c.otherwise.statements[i].k = "Conditional"
    /\ flattener.condition_stack = <<>>


(***************************************************************************)
(* The returns list.                                                       *)
(***************************************************************************)
\* C27: guards of collected returns.  The returns list that
\* reconstruct_function takes from the Flattener after a body holds one entry
\* per return statement of the body, in source order; its guard is None for a
\* return outside every conditional and otherwise the conjunction, outermost
\* first, of the conditions of the enclosing conditionals, negated where the
\* return lies in the else branch; its expression is the returned expression,
\* or the whole tuple when that is a name aliased to a tuple.
C27_ReturnGuards ==
    (Flattened /\ flattener.panic = "none") =>
        /\ Len(body_returns) = Len(ExpectedReturns)
        /\ \A i \in 1..Len(body_returns) : body_returns[i] = ExpectedReturns[i]

\* C27 witness: a body was flattened whose returns list holds a return of an
\* alias of a tuple under two conditions, the outer one negated, and behind it
\* the return of a tuple's name that ends the outer else branch
C27_Witness ==
    /\ Flattened
    /\ flattener.panic = "none"
    /\ \E i \in 1..Len(body_returns) :
          /\ body_returns[i].guard = Binary("And", Unary("Not", Id("c1")), Id("c2"))
          /\ body_returns[i].expr = Tuple(<<Id("y"), U8("2")>>)
    /\ body_returns[Len(body_returns)] = [guard |-> Unary("Not", Id("c1")),
                                          expr |-> Tuple(<<Id("x"), Id("y")>>)]


(***************************************************************************)
(* The Flattener when a function body is entered.                          *)
(***************************************************************************)
\* the positions of the record-typed inputs of the last function
RecordInputs == {i \in 1..Len(last_function.input) : last_function.input[i].type_.k = "Identifier"}

\* C28: Flattener state is per function.  When reconstruct_function enters
\* the body of a function, the returns list and the condition stack are empty,
\* the structs map holds the record-typed inputs of the function, each with its
\* record type, and nothing else, and the tuples map holds no entry: none made
\* for the finalize block of the function, none made for an earlier function.
C28_StatePerFunction ==
    Flattened =>
        /\ body_entry.returns = <<>>
        /\ body_entry.condition_stack = <<>>
        /\ DOMAIN body_entry.structs = {last_function.input[i].identifier.name : i \in RecordInputs}
        /\ \A i \in RecordInputs :
               body_entry.structs[last_function.input[i].identifier.name]
                   = last_function.input[i].type_.name
        /\ DOMAIN body_entry.tuples = {}


(***************************************************************************)
(* The order of the spliced statements.                                    *)
(***************************************************************************)
\* the statements reconstruct_block gave for the body: the flattened body
\* without the statements fold_returns put behind them
SplicedOut ==
    LET folded == {i \in 1..Len(Out) :
                      \/ Out[i].k \in {"Return", "Finalize"}
                      \/ Out[i].k = "Assign" /\ Out[i].place = Id("ret")}
        n == IF folded = {} THEN Len(Out)
             ELSE (CHOOSE i \in folded : \A j \in folded : i <= j) - 1
    IN SubSeq(Out, 1, n)

IsTemporary(statement) == statement.k = "Assign" /\ IsFresh(statement.place.name)

\* the names the spliced statements assign that are not temporaries
SurvivingNames ==
    {SplicedOut[i].place.name :
        i \in {j \in 1..Len(SplicedOut) : SplicedOut[j].k = "Assign" /\ ~IsTemporary(SplicedOut[j])}}

DummyTag == <<>>

\* the spliced statements without the temporaries: the assigned name for an
\* assignment, DummyTag for a dummy
RECURSIVE OutOrder(_)
OutOrder(i) ==
    IF i > Len(SplicedOut) THEN <<>>
    ELSE (IF IsTemporary(SplicedOut[i]) THEN <<>>
          ELSE IF SplicedOut[i].k = "Assign" THEN <<SplicedOut[i].place.name>>
          ELSE <<DummyTag>>) \o OutOrder(i + 1)

\* the order the claim gives the statements of a source list: a surviving
\* assignment by its name, an erased assignment, a return and a finalize by a
\* dummy, a conditional by its then-block, its else-block and one dummy
RECURSIVE SourceOrder(_, _)
SourceOrder(statements, i) ==
    IF i > Len(statements) THEN <<>>
    ELSE LET st == statements[i]
         IN (CASE st.k = "Assign" /\ st.place.name \in SurvivingNames -> <<st.place.name>>
               [] st.k = "Conditional" ->
                     SourceOrder(st.then.statements, 1)
                     \o (IF st.otherwise.k = "Block"
                         THEN SourceOrder(st.otherwise.statements, 1) ELSE <<>>)
                     \o <<DummyTag>>
               [] OTHER -> <<DummyTag>>)
            \o SourceOrder(statements, i + 1)

\* the source assignments of a ternary that survive
TernaryNames ==
    {a.place.name : a \in {st \in AllStatements(Body) :
                              IsTernaryAssign(st) /\ st.place.name \in SurvivingNames}}

\* C29: order preservation while splicing.  Without the temporaries, the
\* statements reconstruct_block gives for a body are the surviving assignments
\* in source order, the statements of a then-block before those of the
\* else-block and both before the one dummy that stands for their conditional;
\* a temporary is followed by a further temporary or by the assignment of the
\* ternary it was made for, and that assignment reads the temporary right
\* before it.
C29_OrderPreserved ==
    (Flattened /\ flattener.panic = "none") =>
        /\ OutOrder(1) = SourceOrder(Body, 1)
        /\ \A i \in 1..Len(SplicedOut) :
               IsTemporary(SplicedOut[i]) =>
                   /\ i < Len(SplicedOut)
                   /\ \/ IsTemporary(SplicedOut[i + 1])
                      \/ /\ SplicedOut[i + 1].k = "Assign"
                         /\ SplicedOut[i + 1].place.name \in TernaryNames
                         /\ SplicedOut[i].place \in Reads(SplicedOut[i + 1])
        /\ \A i \in 1..Len(SplicedOut) :
               (SplicedOut[i].k = "Assign" /\ SplicedOut[i].place.name \in TernaryNames) =>
                   i > 1 /\ IsTemporary(SplicedOut[i - 1])

\* C29 witness: a body with an assignment in a then-block, one in the
\* else-block and a ternary assignment was flattened: both assignments stand
\* in that order before the dummy of the conditional, the temporary stands
\* right before the ternary assignment
C29_Witness ==
    /\ Flattened
    /\ flattener.panic = "none"
    /\ \E c \in Conditionals :
          /\ c.otherwise.k = "Block"
          /\ \E i \in 1..Len(c.then.statements) : c.then.statements[i].k = "Assign"
          /\ \E i \in 1..Len(c.otherwise.statements) : c.otherwise.statements[i].k = "Assign"
    /\ TernaryNames # {}
    /\ \E i \in 1..Len(SplicedOut) : IsTemporary(SplicedOut[i])

=============================================================================
